---- MODULE Spec2Model ----
(***************************************************************************)
(* A model of the analyzer's audio alignment engine                        *)
(* (apps/analyzer/app/audio_sync.py), of its beat detection (beats.py), of *)
(* its analysis cache under concurrent requests (main.py, cache.py) and of *)
(* its transform smoothing (reframing.py).  Each has a specification of    *)
(* its own over the variables of the module; the variables of the others   *)
(* stay at their idle values.                                              *)
(*                                                                         *)
(* Numbers.  The code computes with floats; the model computes with exact  *)
(* integers:                                                               *)
(*   - a sample is an integer (an integer-valued float is exact);          *)
(*   - an envelope is a sequence of integers over a common denominator     *)
(*     `den` (a bucket mean is a sum over a bucket length);                *)
(*   - a score is [num, rad], the real number num / sqrt(rad), rad > 0:    *)
(*     both the dot product of two normalized slices and the localized     *)
(*     NCC are an integer over the square root of an integer;              *)
(*   - a time in seconds is the rational [num, den], den > 0.              *)
(* The code's thresholds `<= 1e-9` on an energy are `= 0` here: over the   *)
(* integer samples and the lengths of the model a non-zero energy is far   *)
(* above 1e-9 and a zero one is computed exactly.  Two scores that are     *)
(* equal as real numbers are equal here; the code's floats may differ in   *)
(* the last bit, which can order two such candidates the other way round.  *)
(*                                                                         *)
(* A function of the code is an operator here; where the code names an     *)
(* intermediate value and uses it several times, the operator passes it to *)
(* a second operator as a parameter.                                       *)
(***************************************************************************)
EXTENDS Integers, Sequences, FiniteSets, TLC

\* ---------------------------------------------------------------- bounds
\* The longest reference and candidate, the largest max_shift_seconds and the
\* largest limit of a call.
MaxRefLen == 5
MaxCandLen == 8
MaxShift == 4
MaxLimit == 2

\* The largest number of non-zero samples of a long signal.
MaxPulses == 2

\* The sample values and the sample rates the inputs are drawn from.  At 48 Hz
\* the coarse stage (target 24 Hz) averages buckets of 2 samples; at 1..3 Hz
\* every envelope is the signal itself.  At 1 Hz neighbouring lags are 1 s
\* apart, at 2 Hz 0.5 s (inside the coarse 0.75 s spacing), at 3 Hz 0.333 s
\* (inside the final 0.35 s spacing).
SampleValues == {0, 1}
SampleRates == {-1, 0, 1, 2, 3, 48}

\* --------------------------------------------------------------- helpers
Abs(x) == IF x < 0 THEN -x ELSE x

Max(a, b) == IF a >= b THEN a ELSE b

Min(a, b) == IF a <= b THEN a ELSE b

Sign(x) == IF x > 0 THEN 1 ELSE IF x < 0 THEN -1 ELSE 0

\* s[1] + ... + s[n] and sum(s).
RECURSIVE SumUpTo(_, _)
SumUpTo(s, n) == IF n = 0 THEN 0 ELSE s[n] + SumUpTo(s, n - 1)

SumSeq(s) == SumUpTo(s, Len(s))

\* a[1] * b[1] + ... + a[n] * b[n]
RECURSIVE DotUpTo(_, _, _)
DotUpTo(a, b, n) == IF n = 0 THEN 0 ELSE a[n] * b[n] + DotUpTo(a, b, n - 1)

\* abs(s[lo]) + ... + abs(s[hi])
RECURSIVE AbsSum(_, _, _)
AbsSum(s, lo, hi) == IF lo > hi THEN 0 ELSE Abs(s[hi]) + AbsSum(s, lo, hi - 1)

\* Sequences over S of length lo..hi.
SeqsOfLen(S, lo, hi) == UNION {[1..n -> S] : n \in lo..hi}

\* Python's int(round(p / q)), q > 0: round half to even.
RoundHalfEven(p, q) ==
    IF 2 * (p - (p \div q) * q) < q THEN p \div q
    ELSE IF 2 * (p - (p \div q) * q) > q THEN (p \div q) + 1
    ELSE IF (p \div q) % 2 = 0 THEN p \div q
    ELSE (p \div q) + 1

\* ---------------------------------------------------------------- scores
\* The score num / sqrt(rad).
ZeroScore == [num |-> 0, rad |-> 1]

ScoreLess(a, b) ==
    IF Sign(a.num) # Sign(b.num) THEN Sign(a.num) < Sign(b.num)
    ELSE IF a.num > 0 THEN a.num * a.num * b.rad < b.num * b.num * a.rad
    ELSE IF a.num < 0 THEN a.num * a.num * b.rad > b.num * b.num * a.rad
    ELSE FALSE

ScoreEq(a, b) == ~ScoreLess(a, b) /\ ~ScoreLess(b, a)

\* score / best_score, or 0.0 when abs(best_score) <= 1e-9: the real number
\* sign * sqrt(sq_num / sq_den).
ZeroRatio == [sign |-> 0, sq_num |-> 0, sq_den |-> 1]

ScoreRatio(score, best_score) ==
    IF best_score.num = 0 THEN ZeroRatio
    ELSE [sign |-> Sign(score.num) * Sign(best_score.num),
          sq_num |-> score.num * score.num * best_score.rad,
          sq_den |-> best_score.num * best_score.num * score.rad]

RatioIsOne(r) == r.sign = 1 /\ r.sq_num = r.sq_den

RatioIsZero(r) == r.sign = 0 \/ r.sq_num = 0

\* list.sort(key=lambda item: item["score"], reverse=True): a stable sort,
\* descending by score (items of equal score keep their order).
RECURSIVE InsertDesc(_, _)
InsertDesc(sorted, x) ==
    IF sorted = <<>> THEN <<x>>
    ELSE IF ScoreLess(Head(sorted).score, x.score) THEN <<x>> \o sorted
    ELSE <<Head(sorted)>> \o InsertDesc(Tail(sorted), x)

RECURSIVE SortUpTo(_, _)
SortUpTo(s, n) == IF n = 0 THEN <<>> ELSE InsertDesc(SortUpTo(s, n - 1), s[n])

\* A sort that leaves the list as it is.
SortByScoreDesc_Unsorted(s) == s

SortByScoreDesc(s) == SortUpTo(s, Len(s))

\* max(item score for item in items), items non-empty.
RECURSIVE MaxScoreUpTo(_, _)
MaxScoreUpTo(items, n) ==
    IF n = 1 THEN items[1].score
    ELSE IF ScoreLess(MaxScoreUpTo(items, n - 1), items[n].score) THEN items[n].score
    ELSE MaxScoreUpTo(items, n - 1)

MaxScore(items) == MaxScoreUpTo(items, Len(items))

\* ----------------------------------------------------------------- times
Seconds(num, den) == [num |-> num, den |-> den]

\* abs(a - b) < cents / 100  and  abs(a - b) <= cents / 100.
Closer(a, b, cents) == 100 * Abs(a.num * b.den - b.num * a.den) < cents * a.den * b.den

Within(a, b, cents) == 100 * Abs(a.num * b.den - b.num * a.den) <= cents * a.den * b.den

SecondsEq(a, b) == a.num * b.den = b.num * a.den

\* ------------------------------------------------------------ _normalize
\* The normalized sequence is num[i] / sqrt(e2): with n = len(signal) and
\* S = sum(signal), the centered sample is (n * x - S) / n, and dividing by the
\* energy sqrt(sum (n * x - S)^2) / n leaves (n * x - S) / sqrt(sum (n * x - S)^2).
\* With zero energy the centered sequence (all zeros, over n) is returned.
Rescale(centered, n) ==
    IF DotUpTo(centered, centered, n) = 0 THEN [num |-> centered, e2 |-> n * n]
    ELSE [num |-> centered, e2 |-> DotUpTo(centered, centered, n)]

\* A centering that forgets the mean.
Centered_Raw(signal, total) == [i \in 1..Len(signal) |-> Len(signal) * signal[i]]

Centered(signal, total) == [i \in 1..Len(signal) |-> Len(signal) * signal[i] - total]

Normalize(signal) ==
    IF signal = <<>> THEN [num |-> <<>>, e2 |-> 1]
    ELSE Rescale(Centered(signal, SumSeq(signal)), Len(signal))

\* --------------------------------------------------------- _slice_overlap
NoOverlap == [ref_slice |-> <<>>, cand_slice |-> <<>>]

\* Two slices of the overlap's length, both taken from the start.
SliceOverlap_Unshifted(reference, candidate, lag) ==
    IF Min(Len(reference), Len(candidate)) - Abs(lag) <= 0 THEN NoOverlap
    ELSE [ref_slice |-> SubSeq(reference, 1, Min(Len(reference), Len(candidate)) - Abs(lag)),
          cand_slice |-> SubSeq(candidate, 1, Min(Len(reference), Len(candidate)) - Abs(lag))]

SliceOverlap(reference, candidate, lag) ==
    IF lag >= 0
    THEN IF lag >= Len(candidate) THEN NoOverlap
         ELSE IF Min(Len(reference), Len(candidate) - lag) <= 0 THEN NoOverlap
         ELSE [ref_slice |-> SubSeq(reference, 1, Min(Len(reference), Len(candidate) - lag)),
               cand_slice |-> SubSeq(candidate, lag + 1,
                                     lag + Min(Len(reference), Len(candidate) - lag))]
    ELSE IF -lag >= Len(reference) THEN NoOverlap
         ELSE IF Min(Len(reference) + lag, Len(candidate)) <= 0 THEN NoOverlap
         ELSE [ref_slice |-> SubSeq(reference, 1 - lag,
                                    Min(Len(reference) + lag, Len(candidate)) - lag),
               cand_slice |-> SubSeq(candidate, 1, Min(Len(reference) + lag, Len(candidate)))]

\* A least overlap that forgets the sample rate.
MinOverlap_Four(sample_rate) == 4

\* max(4, sample_rate // 5)
MinOverlap(sample_rate) == Max(4, sample_rate \div 5)

\* ------------------------------------------------------- _local_ncc_score
\* [none, score, length].  With L the overlap length, the mean-centered sums are
\* numerator = (L sum(r c) - sum(r) sum(c)) / L and energies likewise, so the
\* quotient is (L sum(r c) - sum(r) sum(c)) / sqrt(E_r * E_c), E = L sum(x x) - sum(x)^2.
NccOfSums(length, sum_r, sum_c, sum_rc, sum_rr, sum_cc) ==
    IF (length * sum_rr - sum_r * sum_r) * (length * sum_cc - sum_c * sum_c) = 0
    THEN [none |-> FALSE, score |-> ZeroScore, length |-> length]
    ELSE [none |-> FALSE,
          score |-> [num |-> length * sum_rc - sum_r * sum_c,
                     rad |-> (length * sum_rr - sum_r * sum_r)
                                 * (length * sum_cc - sum_c * sum_c)],
          length |-> length]

NccOfSlices(r, c, sample_rate) ==
    IF Len(r) < MinOverlap(sample_rate)
    THEN [none |-> TRUE, score |-> ZeroScore, length |-> Len(r)]
    ELSE NccOfSums(Len(r), SumSeq(r), SumSeq(c), DotUpTo(r, c, Len(r)),
                   DotUpTo(r, r, Len(r)), DotUpTo(c, c, Len(r)))

SlicesNcc(sl, sample_rate) == NccOfSlices(sl.ref_slice, sl.cand_slice, sample_rate)

LocalNccScore(reference, candidate, lag, sample_rate) ==
    SlicesNcc(SliceOverlap(reference, candidate, lag), sample_rate)

\* --------------------------------------------------- _envelope_downsample
\* [raised, values, den, rate]: the envelope is values[i] / den.
ValueError == [raised |-> TRUE, values |-> <<>>, den |-> 1, rate |-> 0]

BucketSize(sample_rate, target_rate) == Max(1, sample_rate \div Max(1, target_rate))

\* Bucket means that divide the final partial bucket by bucket_size too.
Buckets_FullLength(signal, bucket_size, count, last_len) ==
    [b \in 1..count |->
        last_len * AbsSum(signal, (b - 1) * bucket_size + 1, Min(b * bucket_size, Len(signal)))]

\* The bucket means over the common denominator bucket_size * last_len, last_len
\* the length of the final (maybe partial) bucket: a full bucket's sum is scaled
\* by last_len, the final bucket's by bucket_size.
Buckets(signal, bucket_size, count, last_len) ==
    [b \in 1..count |->
        IF b = count
        THEN bucket_size * AbsSum(signal, (b - 1) * bucket_size + 1, Len(signal))
        ELSE last_len * AbsSum(signal, (b - 1) * bucket_size + 1, b * bucket_size)]

BucketEnvelope(signal, sample_rate, bucket_size, count) ==
    IF bucket_size = 1
    THEN [raised |-> FALSE, values |-> signal, den |-> 1, rate |-> sample_rate]
    ELSE [raised |-> FALSE,
          values |-> Buckets(signal, bucket_size, count,
                             Len(signal) - (count - 1) * bucket_size),
          den |-> bucket_size * (Len(signal) - (count - 1) * bucket_size),
          rate |-> Max(1, sample_rate \div bucket_size)]

BucketsOf(signal, sample_rate, bucket_size) ==
    BucketEnvelope(signal, sample_rate, bucket_size,
                   (Len(signal) + bucket_size - 1) \div bucket_size)

\* An envelope that looks at the signal before it looks at the sample rate.
EnvelopeDownsample_EmptyFirst(signal, sample_rate, target_rate) ==
    IF signal = <<>>
    THEN [raised |-> FALSE, values |-> <<>>, den |-> 1, rate |-> sample_rate]
    ELSE IF sample_rate <= 0 THEN ValueError
    ELSE BucketsOf(signal, sample_rate, BucketSize(sample_rate, target_rate))

EnvelopeDownsample(signal, sample_rate, target_rate) ==
    IF sample_rate <= 0 THEN ValueError
    ELSE IF signal = <<>>
    THEN [raised |-> FALSE, values |-> <<>>, den |-> 1, rate |-> sample_rate]
    ELSE BucketsOf(signal, sample_rate, BucketSize(sample_rate, target_rate))

\* ------------------------------------ _vocal_emphasis_envelope_downsample
\* high_cut = min(1800.0, sample_rate / 2.0 - 1.0) > 200.0
HighCutAbove200(sample_rate) == sample_rate > 402

\* np.any(band_mask): some rfft frequency k * sample_rate / n, k in 0..n // 2,
\* lies in [180, high_cut].
BandNonEmpty(n, sample_rate) ==
    \E k \in 0..(n \div 2) :
        /\ 180 * n <= k * sample_rate
        /\ k * sample_rate <= 1800 * n
        /\ 2 * k * sample_rate <= (sample_rate - 2) * n

\* The band-passed feature is not computed here: the record of the spectral
\* branch carries the reduced rate and the number of values, not the values.
SpectralEnvelope(signal, sample_rate, bucket_size) ==
    [raised |-> FALSE, spectral |-> TRUE,
     count |-> (Len(signal) + bucket_size - 1) \div bucket_size,
     rate |-> IF bucket_size = 1 THEN sample_rate ELSE Max(1, sample_rate \div bucket_size)]

\* A vocal envelope that does not look whether the band holds a frequency bin.
VocalEmphasisEnvelopeDownsample_NoBandCheck(signal, sample_rate, target_rate, numpy) ==
    IF ~numpy THEN EnvelopeDownsample(signal, sample_rate, target_rate)
    ELSE IF sample_rate <= 0 THEN ValueError
    ELSE IF signal = <<>>
    THEN [raised |-> FALSE, values |-> <<>>, den |-> 1, rate |-> sample_rate]
    ELSE IF Len(signal) < 8 \/ ~HighCutAbove200(sample_rate)
    THEN EnvelopeDownsample(signal, sample_rate, target_rate)
    ELSE SpectralEnvelope(signal, sample_rate, BucketSize(sample_rate, target_rate))

VocalEmphasisEnvelopeDownsample(signal, sample_rate, target_rate, numpy) ==
    IF ~numpy THEN EnvelopeDownsample(signal, sample_rate, target_rate)
    ELSE IF sample_rate <= 0 THEN ValueError
    ELSE IF signal = <<>>
    THEN [raised |-> FALSE, values |-> <<>>, den |-> 1, rate |-> sample_rate]
    ELSE IF Len(signal) < 8 \/ ~HighCutAbove200(sample_rate)
              \/ ~BandNonEmpty(Len(signal), sample_rate)
    THEN EnvelopeDownsample(signal, sample_rate, target_rate)
    ELSE SpectralEnvelope(signal, sample_rate, BucketSize(sample_rate, target_rate))

\* -------------------------------------------------- _top_correlation_lags
\* The scoring loop.  r and c are the numerators of the normalized sequences
\* and rad the product of their squared energies, so a score is the dot product
\* of the two slices over sqrt(rad).  A lag is passed over when a slice is empty
\* or the overlap is shorter than max(4, sample_rate // 5).
OverlapLength(sl) == Min(Len(sl.ref_slice), Len(sl.cand_slice))

Scorable(sl, sample_rate) ==
    /\ sl.ref_slice # <<>>
    /\ sl.cand_slice # <<>>
    /\ OverlapLength(sl) >= MinOverlap(sample_rate)

ScoredLag(sl, rad, lag) ==
    [lag |-> lag,
     score |-> [num |-> DotUpTo(sl.ref_slice, sl.cand_slice, OverlapLength(sl)), rad |-> rad],
     length |-> OverlapLength(sl)]

ScoresAt(r, c, rad, lags) ==
    [k \in 1..Len(lags) |-> ScoredLag(SliceOverlap(r, c, lags[k]), rad, lags[k])]

ScoreLags(r, c, rad, sample_rate, min_lag_samples, max_lag_samples) ==
    LET scored(lag) == Scorable(SliceOverlap(r, c, lag), sample_rate)
    IN  ScoresAt(r, c, rad,
                 SelectSeq([i \in 1..(max_lag_samples - min_lag_samples + 1) |->
                                min_lag_samples + i - 1],
                           scored))

\* A picking loop that takes the best scores whatever their distance.
PickPeaks_AnyDistance(scores, picked, limit, min_peak_distance_samples) ==
    SubSeq(scores, 1, Min(Len(scores), Max(1, limit)))

\* The picking loop over the sorted scores.
RECURSIVE PickPeaks(_, _, _, _)
PickPeaks(scores, picked, limit, min_peak_distance_samples) ==
    IF scores = <<>> THEN picked
    ELSE IF \E k \in 1..Len(picked) :
                Abs(Head(scores).lag - picked[k].lag) < min_peak_distance_samples
    THEN PickPeaks(Tail(scores), picked, limit, min_peak_distance_samples)
    ELSE IF Len(picked) + 1 >= limit THEN Append(picked, Head(scores))
    ELSE PickPeaks(Tail(scores), Append(picked, Head(scores)), limit,
                   min_peak_distance_samples)

PeakResults(picked, sample_rate) ==
    [i \in 1..Len(picked) |->
        [lag_seconds |-> Seconds(picked[i].lag, sample_rate),
         score |-> picked[i].score,
         score_ratio |-> ScoreRatio(picked[i].score, MaxScore(picked)),
         overlap_samples |-> picked[i].length,
         injected |-> FALSE]]

\* An empty list of scores gives an empty list of results.
TopCorrelationLags(normalized_reference, normalized_candidate, sample_rate, min_lag_samples, max_lag_samples, limit, min_peak_distance_samples) ==
    PeakResults(
        PickPeaks(SortByScoreDesc(ScoreLags(normalized_reference.num,
                                            normalized_candidate.num,
                                            normalized_reference.e2 * normalized_candidate.e2,
                                            sample_rate, min_lag_samples, max_lag_samples)),
                  <<>>, limit, min_peak_distance_samples),
        sample_rate)

\* -------------------------------------------------- _merge_candidate_lags
InjectedCandidate(lag_seconds) ==
    [lag_seconds |-> lag_seconds, score |-> ZeroScore, score_ratio |-> ZeroRatio,
     overlap_samples |-> 0, injected |-> TRUE]

RECURSIVE MergeCandidateLags(_, _, _)
MergeCandidateLags(merged, extra_lags_seconds, tolerance_cents) ==
    IF extra_lags_seconds = <<>> THEN merged
    ELSE IF \E k \in 1..Len(merged) :
                Closer(merged[k].lag_seconds, Head(extra_lags_seconds), tolerance_cents)
    THEN MergeCandidateLags(merged, Tail(extra_lags_seconds), tolerance_cents)
    ELSE MergeCandidateLags(Append(merged, InjectedCandidate(Head(extra_lags_seconds))),
                            Tail(extra_lags_seconds), tolerance_cents)

\* ------------------------------------------------ _combine_feature_scores
\* n / (100 * sqrt(rad)) as a score.
Hundredths(n, rad) ==
    IF n % 100 = 0 THEN [num |-> n \div 100, rad |-> rad]
    ELSE [num |-> n, rad |-> 10000 * rad]

\* A sum with the two weights swapped.
WeightedSum_Swapped(amp, vocal) ==
    IF amp.rad = vocal.rad THEN Hundredths(55 * amp.num + 45 * vocal.num, amp.rad)
    ELSE IF amp.num = 0 THEN Hundredths(45 * vocal.num, vocal.rad)
    ELSE IF vocal.num = 0 THEN Hundredths(55 * amp.num, amp.rad)
    ELSE [amp |-> amp, vocal |-> vocal]

\* 0.45 * amp + 0.55 * vocal.  Two scores over different radicals, neither
\* zero, have no sum of the form num / sqrt(rad): the record then keeps both.
WeightedSum(amp, vocal) ==
    IF amp.rad = vocal.rad THEN Hundredths(45 * amp.num + 55 * vocal.num, amp.rad)
    ELSE IF amp.num = 0 THEN Hundredths(55 * vocal.num, vocal.rad)
    ELSE IF vocal.num = 0 THEN Hundredths(45 * amp.num, amp.rad)
    ELSE [amp |-> amp, vocal |-> vocal]

CombineScores(lag, sample_rate, amp, vocal) ==
    IF amp.none /\ vocal.none THEN <<>>
    ELSE <<[lag_seconds |-> Seconds(lag, sample_rate),
            score |-> WeightedSum(IF amp.none THEN ZeroScore ELSE amp.score,
                                  IF vocal.none THEN ZeroScore ELSE vocal.score),
            amp_score |-> IF amp.none THEN ZeroScore ELSE amp.score,
            vocal_score |-> IF vocal.none THEN ZeroScore ELSE vocal.score,
            overlap_samples |-> Max(amp.length, vocal.length)]>>

\* <<>> for None, else the one combined record.
CombineFeatureScores(lag, sample_rate, fine_reference_amp, fine_candidate_amp, fine_reference_vocal, fine_candidate_vocal) ==
    CombineScores(lag, sample_rate,
                  LocalNccScore(fine_reference_amp, fine_candidate_amp, lag, sample_rate),
                  LocalNccScore(fine_reference_vocal, fine_candidate_vocal, lag, sample_rate))

\* -------------------------------------------- iteration over a set of ints
\* candidate_lags is a CPython set of at most three ints, so a table of 8 slots
\* that is never resized: a key goes to slot hash & 7 and, while the slot is
\* taken, to slot (5 * i + 1 + perturb) & 7 with perturb shifted right by 5
\* before each step (no linear probes: i + 9 > 7).  perturb starts as the hash
\* read as an unsigned 64-bit number, so it is 0 from the 13th shift on.
\* Iteration is by slot.
PyHash(n) == IF n = -1 THEN -2 ELSE n

EmptyTable == [i \in 0..7 |-> <<>>]

Perturb(perturb, shifts) == IF shifts >= 13 THEN 0 ELSE perturb \div 32

RECURSIVE SetProbe(_, _, _, _)
SetProbe(table, i, perturb, shifts) ==
    IF table[i] = <<>> THEN i
    ELSE SetProbe(table, (5 * i + 1 + Perturb(perturb, shifts + 1)) % 8,
                  Perturb(perturb, shifts + 1), shifts + 1)

SetAdd(table, key) ==
    IF \E i \in 0..7 : table[i] = <<key>> THEN table
    ELSE [table EXCEPT ![SetProbe(table, PyHash(key) % 8, PyHash(key), 0)] = <<key>>]

RECURSIVE SetOf(_, _)
SetOf(keys, n) == IF n = 0 THEN EmptyTable ELSE SetAdd(SetOf(keys, n - 1), keys[n])

RECURSIVE SlotsFrom(_, _)
SlotsFrom(table, i) == IF i > 7 THEN <<>> ELSE table[i] \o SlotsFrom(table, i + 1)

\* The keys added in the order of `keys`, in the order a for loop visits them.
SetIteration(keys) == SlotsFrom(SetOf(keys, Len(keys)), 0)

\* ------------------------------------------------ estimate_sync_candidates
\* The two dedupe loops: an item is skipped when its lag is closer than
\* cents / 100 seconds to a kept one, and the loop stops after the append that
\* brings the kept list to `cap` items.
RECURSIVE KeepApart(_, _, _, _)
KeepApart(items, kept, cents, cap) ==
    IF items = <<>> THEN kept
    ELSE IF \E k \in 1..Len(kept) : Closer(Head(items).lag_seconds, kept[k].lag_seconds, cents)
    THEN KeepApart(Tail(items), kept, cents, cap)
    ELSE IF Len(kept) + 1 >= cap THEN Append(kept, Head(items))
    ELSE KeepApart(Tail(items), Append(kept, Head(items)), cents, cap)

\* The loop over injected_coarse_candidates.
RECURSIVE RetainInjected(_, _)
RetainInjected(injected_coarse_candidates, coarse_candidates_deduped) ==
    IF injected_coarse_candidates = <<>> THEN coarse_candidates_deduped
    ELSE IF \E k \in 1..Len(coarse_candidates_deduped) :
                Closer(Head(injected_coarse_candidates).lag_seconds,
                       coarse_candidates_deduped[k].lag_seconds, 75)
    THEN RetainInjected(Tail(injected_coarse_candidates), coarse_candidates_deduped)
    ELSE RetainInjected(Tail(injected_coarse_candidates),
                        Append(coarse_candidates_deduped, Head(injected_coarse_candidates)))

IsInjected(item) == item.injected

CoarseDedupe(coarse_candidates, limit) ==
    RetainInjected(SelectSeq(coarse_candidates, IsInjected),
                   KeepApart(coarse_candidates, <<>>, 75, Max(5, limit * 2)))

EndAnchorSeconds(reference, candidate, sample_rate) ==
    IF Len(candidate) > Len(reference)
    THEN Seconds(Len(candidate) - Len(reference), sample_rate)
    ELSE Seconds(0, 1)

\* One of the two coarse _top_correlation_lags calls.  Normalizing is
\* independent of a positive scale, so the envelope's values stand for the
\* envelope.
CoarsePeaks(coarse_reference, coarse_candidate, sample_rate, coarse_rate, max_shift_seconds, limit) ==
    TopCorrelationLags(Normalize(coarse_reference.values), Normalize(coarse_candidate.values),
                       sample_rate,
                       -(max_shift_seconds * coarse_rate), max_shift_seconds * coarse_rate,
                       Max(3, limit + 2), Max(1, (75 * coarse_rate) \div 100))

NotRaised == ""

CoarseFromEnvelopes(coarse_reference_amp, coarse_candidate_amp, coarse_reference_vocal, coarse_candidate_vocal, end_anchor_seconds, max_shift_seconds, limit) ==
    IF coarse_reference_amp.rate # coarse_candidate_amp.rate
    THEN [raised |-> "Coarse sample rates must match", coarse_candidates |-> <<>>]
    ELSE IF coarse_reference_vocal.rate # coarse_candidate_vocal.rate
    THEN [raised |-> "Coarse vocal sample rates must match", coarse_candidates |-> <<>>]
    ELSE [raised |-> NotRaised,
          coarse_candidates |->
              CoarseDedupe(
                  SortByScoreDesc(
                      MergeCandidateLags(
                          CoarsePeaks(coarse_reference_amp, coarse_candidate_amp,
                                      coarse_reference_amp.rate, coarse_reference_amp.rate,
                                      max_shift_seconds, limit)
                              \o CoarsePeaks(coarse_reference_vocal, coarse_candidate_vocal,
                                             coarse_reference_vocal.rate,
                                             coarse_reference_amp.rate,
                                             max_shift_seconds, limit),
                          <<end_anchor_seconds>>, 35)),
                  limit)]

\* Lines 383-466: the sample_rate check, the coarse envelopes, the coarse
\* peaks, the end anchor, the merge and the coarse dedupe.
CoarseStage(reference, candidate, sample_rate, max_shift_seconds, limit, numpy) ==
    IF sample_rate <= 0
    THEN [raised |-> "sample_rate must be positive", coarse_candidates |-> <<>>]
    ELSE CoarseFromEnvelopes(
             EnvelopeDownsample(reference, sample_rate, 24),
             EnvelopeDownsample(candidate, sample_rate, 24),
             VocalEmphasisEnvelopeDownsample(reference, sample_rate, 24, numpy),
             VocalEmphasisEnvelopeDownsample(candidate, sample_rate, 24, numpy),
             EndAnchorSeconds(reference, candidate, sample_rate),
             max_shift_seconds, limit)

\* One of the two fine _top_correlation_lags calls (limit 1).
FinePeaks(normalized_fine_reference, normalized_fine_candidate, fine_rate, min_lag, max_lag) ==
    TopCorrelationLags(normalized_fine_reference, normalized_fine_candidate, fine_rate,
                       min_lag, max_lag, 1, Max(1, (20 * fine_rate) \div 100))

\* int(round(float(item.get("lag_seconds", 0.0)) * fine_rate)) for each peak.
PeakLags(peaks, fine_rate) ==
    [i \in 1..Len(peaks) |->
        RoundHalfEven(peaks[i].lag_seconds.num * fine_rate, peaks[i].lag_seconds.den)]

\* The loop over candidate_lags: the combined records, in the set's order.
RECURSIVE CombineAll(_, _, _, _, _)
CombineAll(lags, i, min_lag, max_lag, fine) ==
    IF i > Len(lags) THEN <<>>
    ELSE IF lags[i] < min_lag \/ lags[i] > max_lag
    THEN CombineAll(lags, i + 1, min_lag, max_lag, fine)
    ELSE CombineFeatureScores(lags[i], fine.rate, fine.reference_amp, fine.candidate_amp,
                              fine.reference_vocal, fine.candidate_vocal)
             \o CombineAll(lags, i + 1, min_lag, max_lag, fine)

Refined(combined, coarse_candidate_item) ==
    [i \in 1..Len(combined) |->
        [lag_seconds |-> combined[i].lag_seconds,
         score |-> combined[i].score,
         amp_score |-> combined[i].amp_score,
         vocal_score |-> combined[i].vocal_score,
         overlap_samples |-> combined[i].overlap_samples,
         coarse_lag_seconds |-> coarse_candidate_item.lag_seconds,
         injected |-> coarse_candidate_item.injected]]

RefineWithin(coarse_candidate_item, fine, fine_center_lag, min_lag, max_lag) ==
    Refined(
        CombineAll(
            SetIteration(<<fine_center_lag>>
                \o PeakLags(FinePeaks(fine.normalized_reference_amp,
                                      fine.normalized_candidate_amp,
                                      fine.rate, min_lag, max_lag)
                                \o FinePeaks(fine.normalized_reference_vocal,
                                             fine.normalized_candidate_vocal,
                                             fine.rate, min_lag, max_lag),
                            fine.rate)),
            1, min_lag, max_lag, fine),
        coarse_candidate_item)

\* A refinement window that is not clipped to the largest shift.
RefineAround_Unclipped(coarse_candidate_item, fine, fine_center_lag, fine_max_shift_samples, refine_window_samples) ==
    RefineWithin(coarse_candidate_item, fine, fine_center_lag,
                 fine_center_lag - refine_window_samples,
                 fine_center_lag + refine_window_samples)

\* Lines 499-502: the window around the coarse lag, clipped to the largest shift.
RefineAround(coarse_candidate_item, fine, fine_center_lag, fine_max_shift_samples, refine_window_samples) ==
    RefineWithin(coarse_candidate_item, fine, fine_center_lag,
                 Max(-fine_max_shift_samples, fine_center_lag - refine_window_samples),
                 Min(fine_max_shift_samples, fine_center_lag + refine_window_samples))

\* One pass of the loop over coarse_candidates (lines 503-547).
RefineCandidate(coarse_candidate_item, fine, max_shift_seconds) ==
    RefineAround(coarse_candidate_item, fine,
                 RoundHalfEven(coarse_candidate_item.lag_seconds.num * fine.rate,
                               coarse_candidate_item.lag_seconds.den),
                 max_shift_seconds * fine.rate,
                 Max(fine.rate, (fine.rate * 6) \div 10))

RECURSIVE RefineAll(_, _, _, _)
RefineAll(coarse_candidates, i, fine, max_shift_seconds) ==
    IF i > Len(coarse_candidates) THEN <<>>
    ELSE RefineCandidate(coarse_candidates[i], fine, max_shift_seconds)
             \o RefineAll(coarse_candidates, i + 1, fine, max_shift_seconds)

FineFromEnvelopes(fine_reference_amp, fine_candidate_amp, fine_reference_vocal, fine_candidate_vocal, coarse_candidates, max_shift_seconds) ==
    IF fine_reference_amp.rate # fine_candidate_amp.rate
    THEN [raised |-> "Fine sample rates must match", refined |-> <<>>]
    ELSE IF fine_reference_vocal.rate # fine_candidate_vocal.rate
    THEN [raised |-> "Fine vocal sample rates must match", refined |-> <<>>]
    ELSE [raised |-> NotRaised,
          refined |->
              RefineAll(coarse_candidates, 1,
                        [rate |-> fine_reference_amp.rate,
                         reference_amp |-> fine_reference_amp.values,
                         candidate_amp |-> fine_candidate_amp.values,
                         reference_vocal |-> fine_reference_vocal.values,
                         candidate_vocal |-> fine_candidate_vocal.values,
                         normalized_reference_amp |-> Normalize(fine_reference_amp.values),
                         normalized_candidate_amp |-> Normalize(fine_candidate_amp.values),
                         normalized_reference_vocal |-> Normalize(fine_reference_vocal.values),
                         normalized_candidate_vocal |-> Normalize(fine_candidate_vocal.values)],
                        max_shift_seconds)]

\* Lines 468-547: the fine envelopes and the refinement of every coarse
\* candidate.
FineStage(reference, candidate, sample_rate, max_shift_seconds, coarse_candidates, numpy) ==
    FineFromEnvelopes(
        EnvelopeDownsample(reference, sample_rate, 90),
        EnvelopeDownsample(candidate, sample_rate, 90),
        VocalEmphasisEnvelopeDownsample(reference, sample_rate, 90, numpy),
        VocalEmphasisEnvelopeDownsample(candidate, sample_rate, 90, numpy),
        coarse_candidates, max_shift_seconds)

\* A final dedupe that keeps lags however close they are.
FinalRanking_NoSpacing(sorted_refined, limit) == KeepApart(sorted_refined, <<>>, 0, limit)

\* Lines 552-562: the final dedupe over the sorted refined list.
FinalRanking(sorted_refined, limit) == KeepApart(sorted_refined, <<>>, 35, limit)

\* Lines 565-571: the best-scoring refined item within 2.5 s of the end anchor
\* (the first of equal scores), <<>> for None.
RECURSIVE EndAnchorChoice(_, _, _, _)
EndAnchorChoice(refined, i, end_anchor_seconds, end_anchor_choice) ==
    IF i > Len(refined) THEN end_anchor_choice
    ELSE IF Within(refined[i].lag_seconds, end_anchor_seconds, 250)
              /\ (end_anchor_choice = <<>>
                    \/ ScoreLess(end_anchor_choice[1].score, refined[i].score))
    THEN EndAnchorChoice(refined, i + 1, end_anchor_seconds, <<refined[i]>>)
    ELSE EndAnchorChoice(refined, i + 1, end_anchor_seconds, end_anchor_choice)

\* A splice that always appends the end-anchor choice.
SpliceChoice_Append(deduped, end_anchor_choice, limit) ==
    IF end_anchor_choice = <<>> THEN deduped
    ELSE IF \E k \in 1..Len(deduped) :
                Closer(deduped[k].lag_seconds, end_anchor_choice[1].lag_seconds, 35)
    THEN deduped
    ELSE SortByScoreDesc(Append(deduped, end_anchor_choice[1]))

\* Lines 572-583.
SpliceChoice(deduped, end_anchor_choice, limit) ==
    IF end_anchor_choice = <<>> THEN deduped
    ELSE IF \E k \in 1..Len(deduped) :
                Closer(deduped[k].lag_seconds, end_anchor_choice[1].lag_seconds, 35)
    THEN deduped
    ELSE IF Len(deduped) >= limit /\ deduped # <<>>
    THEN SortByScoreDesc([deduped EXCEPT ![Len(deduped)] = end_anchor_choice[1]])
    ELSE SortByScoreDesc(Append(deduped, end_anchor_choice[1]))

\* No end-anchor splice at all.
SpliceEndAnchor_Never(deduped, refined, end_anchor_seconds, limit) == deduped

\* Lines 564-583.
SpliceEndAnchor(deduped, refined, end_anchor_seconds, limit) ==
    IF end_anchor_seconds.num > 0
    THEN SpliceChoice(deduped, EndAnchorChoice(refined, 1, end_anchor_seconds, <<>>), limit)
    ELSE deduped

\* Score ratios against the score of the last item instead of the best one.
WithScoreRatio_Last(deduped) ==
    [i \in 1..Len(deduped) |->
        [lag_seconds |-> deduped[i].lag_seconds,
         score |-> deduped[i].score,
         score_ratio |-> ScoreRatio(deduped[i].score, deduped[Len(deduped)].score),
         amp_score |-> deduped[i].amp_score,
         vocal_score |-> deduped[i].vocal_score,
         overlap_samples |-> deduped[i].overlap_samples,
         coarse_lag_seconds |-> deduped[i].coarse_lag_seconds,
         injected |-> deduped[i].injected]]

\* Lines 585-588.
WithScoreRatio(deduped) ==
    [i \in 1..Len(deduped) |->
        [lag_seconds |-> deduped[i].lag_seconds,
         score |-> deduped[i].score,
         score_ratio |-> ScoreRatio(deduped[i].score, MaxScore(deduped)),
         amp_score |-> deduped[i].amp_score,
         vocal_score |-> deduped[i].vocal_score,
         overlap_samples |-> deduped[i].overlap_samples,
         coarse_lag_seconds |-> deduped[i].coarse_lag_seconds,
         injected |-> deduped[i].injected]]

\* ------------------------------------------------------ beats.py
\* The least common multiple of 1 .. n: a moving average of window n divides a
\* running sum by min(n, index + 1), so every value it returns is an integer
\* over LcmUpTo(n).
RECURSIVE Gcd(_, _)
Gcd(a, b) == IF b = 0 THEN a ELSE Gcd(b, a % b)

RECURSIVE LcmUpTo(_)
LcmUpTo(n) == IF n <= 1 THEN 1 ELSE (LcmUpTo(n - 1) * n) \div Gcd(LcmUpTo(n - 1), n)

\* values[lo] + ... + values[hi]
RECURSIVE SumFrom(_, _, _)
SumFrom(values, lo, hi) == IF lo > hi THEN 0 ELSE values[hi] + SumFrom(values, lo, hi - 1)

\* _moving_average(values, window), every element scaled by `scale`, a multiple
\* of every count 1 .. window: element i (from 1) is the sum of the last
\* min(window, i) values over that count.  A window <= 1 returns the values.
MovingAverage(values, window, scale) ==
    IF window <= 1 \/ values = <<>> THEN [i \in 1..Len(values) |-> scale * values[i]]
    ELSE [i \in 1..Len(values) |->
             SumFrom(values, Max(1, i - window + 1), i) * (scale \div Min(window, i))]

\* max(1, int(0.05 * envelope_rate)), max(1, int(0.35 * envelope_rate)) and
\* max(1, int(0.6 * envelope_rate)).
FastWindow(envelope_rate) == Max(1, (5 * envelope_rate) \div 100)

SlowWindow(envelope_rate) == Max(1, (35 * envelope_rate) \div 100)

FloorWindow(envelope_rate) == Max(1, (60 * envelope_rate) \div 100)

\* flux = [max(0.0, fast[index] - slow[index]) ...]: integers over
\* (the envelope's denominator) * LcmUpTo(slow window).
FluxOf(fast, slow) == [i \in 1..Len(fast) |-> Max(0, fast[i] - slow[i])]

Flux(values, envelope_rate) ==
    FluxOf(MovingAverage(values, FastWindow(envelope_rate),
                         LcmUpTo(SlowWindow(envelope_rate))),
           MovingAverage(values, SlowWindow(envelope_rate),
                         LcmUpTo(SlowWindow(envelope_rate))))

\* local_floor: integers over (the denominator of flux) * LcmUpTo(floor window).
LocalFloor(flux_values, envelope_rate) ==
    MovingAverage(flux_values, FloorWindow(envelope_rate), LcmUpTo(FloorWindow(envelope_rate)))

\* max(1, int(min_spacing_seconds * envelope_rate)), min_spacing_seconds in
\* hundredths of a second.
MinSpacingSamples(min_spacing_cents, envelope_rate) ==
    Max(1, (min_spacing_cents * envelope_rate) \div 100)

\* max(flux)
RECURSIVE MaxUpTo(_, _)
MaxUpTo(values, n) == IF n = 1 THEN values[1] ELSE Max(values[n], MaxUpTo(values, n - 1))

\* A threshold that takes local_floor for a list over the denominator of flux.
BelowThreshold_Unscaled(value, max_flux, local_floor_value, floor_scale) ==
    \/ 100 * value < 12 * max_flux
    \/ 100 * value < 135 * local_floor_value

\* value < dynamic_threshold, dynamic_threshold = max(max(flux) * 0.12,
\* local_floor[index] * 1.35); floor_scale is LcmUpTo(floor window).
BelowThreshold(value, max_flux, local_floor_value, floor_scale) ==
    \/ 100 * value < 12 * max_flux
    \/ 100 * floor_scale * value < 135 * local_floor_value

\* ------------------------------------------------------------ the calls
\* One behaviour is one call of one of the four entry points:
\*   call               the function called
\*   numpy              whether `import numpy` succeeded (np is not None)
\*   reference .. limit the arguments (an envelope call passes `reference` as
\*                      its signal)
\*   pc                 where the call is: "called", "coarse" (line 466 done),
\*                      "fine" (line 547 done), "ranked" (line 562 done),
\*                      "returned", "done" (estimate_sync_offset returned),
\*                      "raised"
\*   coarse_candidates, refined, deduped   the locals of estimate_sync_candidates
\*   result             the list estimate_sync_candidates returned
\*   envelope           the pair an envelope function returned
\*   offset             <<the float estimate_sync_offset returned>>
\*   raised             the message of the ValueError raised, or NotRaised
VARIABLES call, numpy, reference, candidate, sample_rate, target_rate,
          max_shift_seconds, limit, pc, coarse_candidates, refined, deduped,
          result, envelope, offset, raised

\* A call of detect_beat_markers passes `reference` as its signal and keeps the
\* pair of line 33 in `envelope`; its other arguments and locals are
\*   min_spacing_seconds  in hundredths of a second
\*   max_markers
\*   envelope_rate, flux, local_floor, min_spacing_samples, markers, last_pick
\*   index                the loop variable of line 53
\* flux is a list of integers over a common denominator, local_floor a list of
\* integers over that denominator times floor_scale.
VARIABLES min_spacing_seconds, max_markers, envelope_rate, flux, local_floor,
          floor_scale, min_spacing_samples, markers, last_pick, index

\* A call of _normalize passes `reference` as its signal; `normalized` is
\* <<the list it returned>>.
VARIABLES normalized

\* The analyzer's HTTP server (main.py) and its cache (cache.py):
\*   request       per request of POST /analyze, where its handler thread is
\*                 (pc), its analysis_key, whether an analysis of that key was
\*                 stored when it arrived (late), the analysis_id it made or
\*                 found, and the HTTP status it sent (0: none yet)
\*   analysis_dir  the files <analysis_id>.json of the analysis directory: per
\*                 analysis_id the analysis_key of the file's content, and
\*                 whether the content is written yet
\*   issued        how many uuid4 values were drawn
VARIABLES request, analysis_dir, issued

cache_vars == <<request, analysis_dir, issued>>

\* A call of smooth_transforms (reframing.py): its arguments and its local
\* list.  A scale, a position and a delta are in hundredths.
VARIABLES transforms, max_pan_delta, max_zoom_delta, smoothed

smooth_vars == <<transforms, max_pan_delta, max_zoom_delta, smoothed>>

\* A call of build_segment_plan (segmentation.py): its arguments and its locals.
\* Its call of smooth_transforms (line 47) runs in the variables above, and
\* `smoothed`, once returned, is its list `transforms`.  `segments` is also the
\* argument of validate_segment_plan (models.py).  A time is in hundredths of a
\* second.
VARIABLES duration_seconds, options, target_duration, cursor, slices, raw_transforms, segments

plan_vars == <<duration_seconds, options, target_duration, cursor, slices, raw_transforms, segments>>

beat_vars == <<min_spacing_seconds, max_markers, envelope_rate, flux, local_floor,
               floor_scale, min_spacing_samples, markers, last_pick, index>>

\* The variables of the other entry points, which a call of the alignment
\* engine leaves alone.
\* A call of _slice_overlap, _local_ncc_score or _top_correlation_lags on its
\* own: `reference` and `candidate` are its two lists, `result` what it
\* returned, and these its other arguments.  A call of _combine_feature_scores
\* passes `reference` and `candidate` as its two amplitude envelopes.
VARIABLES lag, min_lag_samples, max_lag_samples, min_peak_distance_samples, fine_reference_vocal, fine_candidate_vocal

lag_vars == <<lag, min_lag_samples, max_lag_samples, min_peak_distance_samples, fine_reference_vocal, fine_candidate_vocal>>

others == <<beat_vars, normalized, cache_vars, smooth_vars, plan_vars, lag_vars>>

vars == <<call, numpy, reference, candidate, sample_rate, target_rate,
          max_shift_seconds, limit, pc, coarse_candidates, refined, deduped,
          result, envelope, offset, raised, others>>

inputs == <<call, numpy, reference, candidate, sample_rate, target_rate,
            max_shift_seconds, limit>>

SyncCalls == {"estimate_sync_candidates", "estimate_sync_offset"}

EnvelopeCalls == {"_envelope_downsample", "_vocal_emphasis_envelope_downsample"}

TargetRates == {24, 90, 200}

EnvelopeValues == {-1, 0, 1}

\* The signals of n samples with at most MaxPulses non-zero samples.
Signals(n) ==
    {s \in [1..n -> SampleValues] : Cardinality({i \in 1..n : s[i] # 0}) <= MaxPulses}

\* Signals of at most one sample at every sample rate: the sample_rate check,
\* the empty signals and the signals too short to overlap.
ShortInputs ==
    /\ numpy \in BOOLEAN
    /\ sample_rate \in SampleRates
    /\ reference \in SeqsOfLen(SampleValues, 0, 1)
    /\ candidate \in SeqsOfLen(SampleValues, 0, 1)
    /\ max_shift_seconds = 1

\* A candidate one sample longer than the reference, at 1, 2 and 3 Hz.
LongInputs ==
    /\ numpy = TRUE
    /\ sample_rate \in {r \in SampleRates : 0 < r /\ r <= 3}
    /\ reference \in Signals(MaxRefLen)
    /\ candidate \in Signals(MaxRefLen + 1)
    /\ max_shift_seconds = MaxShift \div 2

\* A candidate MaxShift samples longer than the reference.  At 1 Hz lag 0 is
\* more than 2.5 s from the end anchor; at 3 Hz the lags 0 .. MaxShift are
\* 0.333 s apart.
AnchoredInputs ==
    /\ numpy = TRUE
    /\ sample_rate \in {1, 3}
    /\ reference \in Signals(MaxCandLen - MaxShift)
    /\ candidate \in Signals(MaxCandLen)
    /\ max_shift_seconds = MaxShift

\* estimate_sync_offset calls estimate_sync_candidates with limit=1.
InitSync ==
    /\ call \in SyncCalls
    /\ ShortInputs \/ LongInputs \/ AnchoredInputs
    /\ IF call = "estimate_sync_offset" THEN limit = 1 ELSE limit \in 2..MaxLimit
    /\ target_rate = 0

InitEnvelope ==
    /\ call \in EnvelopeCalls
    /\ numpy \in BOOLEAN
    /\ sample_rate \in SampleRates
    /\ target_rate \in TargetRates
    /\ reference \in SeqsOfLen(EnvelopeValues, 0, 3)
    /\ candidate = <<>>
    /\ max_shift_seconds = 0
    /\ limit = 0

\* Python's None, and a value that is not None.
None == <<>>
Some(x) == <<x>>

\* AnalyzeOptions
AnalyzeOptions(clip_mode, max_clip_minutes, privacy_protect_crowd, prefer_lead_singer) == [clip_mode |-> clip_mode, max_clip_minutes |-> max_clip_minutes, privacy_protect_crowd |-> privacy_protect_crowd, prefer_lead_singer |-> prefer_lead_singer]

\* No helper of the alignment engine is called on its own.
LagIdle ==
    /\ lag = 0
    /\ min_lag_samples = 0
    /\ max_lag_samples = 0
    /\ min_peak_distance_samples = 0
    /\ fine_reference_vocal = <<>>
    /\ fine_candidate_vocal = <<>>

\* No call of build_segment_plan or validate_segment_plan is under way.
PlanIdle ==
    /\ duration_seconds = 0
    /\ options = AnalyzeOptions("whole_song", None, TRUE, TRUE)
    /\ target_duration = 0
    /\ cursor = 0
    /\ slices = <<>>
    /\ raw_transforms = <<>>
    /\ segments = <<>>

\* No call of smooth_transforms is under way.
SmoothIdle ==
    /\ transforms = <<>>
    /\ max_pan_delta = 0
    /\ max_zoom_delta = 0
    /\ smoothed = <<>>

\* The server handles no request and stores no analysis.
CacheIdle ==
    /\ request = <<>>
    /\ analysis_dir = <<>>
    /\ issued = 0

\* No call of detect_beat_markers is under way.
BeatIdle ==
    /\ min_spacing_seconds = 0
    /\ max_markers = 0
    /\ envelope_rate = 0
    /\ flux = <<>>
    /\ local_floor = <<>>
    /\ floor_scale = 1
    /\ min_spacing_samples = 0
    /\ markers = <<>>
    /\ last_pick = 0
    /\ index = 0

Init ==
    /\ InitSync \/ InitEnvelope
    /\ BeatIdle
    /\ normalized = <<>>
    /\ CacheIdle
    /\ SmoothIdle
    /\ PlanIdle
    /\ LagIdle
    /\ pc = "called"
    /\ coarse_candidates = <<>>
    /\ refined = <<>>
    /\ deduped = <<>>
    /\ result = <<>>
    /\ envelope = <<>>
    /\ offset = <<>>
    /\ raised = NotRaised

\* Lines 383-466 of estimate_sync_candidates.
CoarseStep ==
    /\ pc = "called"
    /\ call \in SyncCalls
    /\ LET coarse == CoarseStage(reference, candidate, sample_rate, max_shift_seconds,
                                 limit, numpy)
       IN  /\ raised' = coarse.raised
           /\ coarse_candidates' = coarse.coarse_candidates
           /\ pc' = IF coarse.raised = NotRaised THEN "coarse" ELSE "raised"
    /\ UNCHANGED <<inputs, others, refined, deduped, result, envelope, offset>>

\* Lines 468-547.
FineStep ==
    /\ pc = "coarse"
    /\ LET fine == FineStage(reference, candidate, sample_rate, max_shift_seconds,
                             coarse_candidates, numpy)
       IN  /\ raised' = fine.raised
           /\ refined' = fine.refined
           /\ pc' = IF fine.raised = NotRaised THEN "fine" ELSE "raised"
    /\ UNCHANGED <<inputs, others, coarse_candidates, deduped, result, envelope, offset>>

\* Lines 549-562: return [] when nothing was refined, else sort and dedupe.
RankStep ==
    /\ pc = "fine"
    /\ IF refined = <<>>
       THEN /\ pc' = "returned"
            /\ UNCHANGED <<refined, deduped>>
       ELSE /\ pc' = "ranked"
            /\ refined' = SortByScoreDesc(refined)
            /\ deduped' = FinalRanking(SortByScoreDesc(refined), limit)
    /\ UNCHANGED <<inputs, others, coarse_candidates, result, envelope, offset, raised>>

\* Lines 564-589: the end-anchor splice, the score ratios and the return.
SpliceStep ==
    /\ pc = "ranked"
    /\ deduped' = SpliceEndAnchor(deduped, refined,
                                  EndAnchorSeconds(reference, candidate, sample_rate), limit)
    /\ result' = WithScoreRatio(deduped')
    /\ pc' = "returned"
    /\ UNCHANGED <<inputs, others, coarse_candidates, refined, envelope, offset, raised>>

\* Lines 606-608 of estimate_sync_offset.
OffsetStep ==
    /\ pc = "returned"
    /\ call = "estimate_sync_offset"
    /\ offset' = IF result = <<>> THEN <<Seconds(0, 1)>> ELSE <<result[1].lag_seconds>>
    /\ pc' = "done"
    /\ UNCHANGED <<inputs, others, coarse_candidates, refined, deduped, result, envelope, raised>>

\* A call of _envelope_downsample or _vocal_emphasis_envelope_downsample.
EnvelopeStep ==
    /\ pc = "called"
    /\ call \in EnvelopeCalls
    /\ LET returned ==
               IF call = "_envelope_downsample"
               THEN EnvelopeDownsample(reference, sample_rate, target_rate)
               ELSE VocalEmphasisEnvelopeDownsample(reference, sample_rate, target_rate, numpy)
       IN  IF returned.raised
           THEN /\ raised' = "sample_rate must be positive"
                /\ pc' = "raised"
                /\ UNCHANGED envelope
           ELSE /\ envelope' = <<returned>>
                /\ pc' = "returned"
                /\ UNCHANGED raised
    /\ UNCHANGED <<inputs, others, coarse_candidates, refined, deduped, result, offset>>

Next ==
    \/ CoarseStep
    \/ FineStep
    \/ RankStep
    \/ SpliceStep
    \/ OffsetStep
    \/ EnvelopeStep

Spec == Init /\ [][Next]_vars

\* ------------------------------- an end anchor beyond the largest shift
\* Calls at 1 Hz with a candidate MaxCandLen - MaxRefLen samples longer than the
\* reference and a smaller max_shift_seconds: the end anchor lies beyond it,
\* and lags beyond it have an overlap long enough to be scored.
BeyondInputs ==
    /\ numpy = TRUE
    /\ sample_rate = 1
    /\ reference \in Signals(MaxRefLen)
    /\ candidate \in Signals(MaxCandLen)
    /\ max_shift_seconds \in 1..(MaxCandLen - MaxRefLen - 1)

InitBeyond ==
    /\ call \in SyncCalls
    /\ BeyondInputs
    /\ IF call = "estimate_sync_offset" THEN limit = 1 ELSE limit \in 2..MaxLimit
    /\ target_rate = 0
    /\ BeatIdle
    /\ normalized = <<>>
    /\ CacheIdle
    /\ SmoothIdle
    /\ PlanIdle
    /\ LagIdle
    /\ pc = "called"
    /\ coarse_candidates = <<>>
    /\ refined = <<>>
    /\ deduped = <<>>
    /\ result = <<>>
    /\ envelope = <<>>
    /\ offset = <<>>
    /\ raised = NotRaised

InitShift == Init \/ InitBeyond

ShiftSpec == InitShift /\ [][Next]_vars

\* --------------------------------------- a candidate that is not longer
\* Calls of the alignment engine with a candidate of NotLongerLen or
\* NotLongerLen - 1 samples and a reference of NotLongerLen samples, at 1 and
\* 2 Hz: the end anchor is 0.0.
NotLongerLen == 6

InitNotLonger ==
    /\ call \in SyncCalls
    /\ numpy = TRUE
    /\ sample_rate \in {1, 2}
    /\ reference \in Signals(NotLongerLen)
    /\ candidate \in Signals(NotLongerLen - 1) \cup Signals(NotLongerLen)
    /\ max_shift_seconds = MaxShift \div 2
    /\ IF call = "estimate_sync_offset" THEN limit = 1 ELSE limit \in 2..MaxLimit
    /\ target_rate = 0
    /\ pc = "called"
    /\ coarse_candidates = <<>>
    /\ refined = <<>>
    /\ deduped = <<>>
    /\ result = <<>>
    /\ envelope = <<>>
    /\ offset = <<>>
    /\ raised = NotRaised
    /\ BeatIdle
    /\ normalized = <<>>
    /\ CacheIdle
    /\ SmoothIdle
    /\ PlanIdle
    /\ LagIdle

SyncNext ==
    \/ CoarseStep
    \/ FineStep
    \/ RankStep
    \/ SpliceStep
    \/ OffsetStep

NotLongerSpec == InitNotLonger /\ [][SyncNext]_vars

\* ------------------------------------------------- detect_beat_markers
\* The longest signal, and the signals, sample rates, spacings (hundredths of a
\* second) and marker caps of a call.  At 10 Hz the envelope is the signal, the
\* windows are 1 (fast), 3 (slow) and 6 (floor) samples and a spacing of 0.22 s
\* is 2 samples; at 20 Hz buckets of 2 samples are averaged.
MaxBeatLen == 7
BeatValues == {0, 1, 2}
BeatSampleRates == {-1, 0, 10, 20}
BeatTargetRates == {10}
MinSpacings == {22, 30}
MaxMarkers == {2, 2000}

InitBeat ==
    /\ call = "detect_beat_markers"
    /\ numpy = TRUE
    /\ reference \in SeqsOfLen(BeatValues, 0, MaxBeatLen)
    /\ candidate = <<>>
    /\ sample_rate \in BeatSampleRates
    /\ target_rate \in BeatTargetRates
    /\ max_shift_seconds = 0
    /\ limit = 0
    /\ min_spacing_seconds \in MinSpacings
    /\ max_markers \in MaxMarkers
    /\ pc = "called"
    /\ coarse_candidates = <<>>
    /\ refined = <<>>
    /\ deduped = <<>>
    /\ result = <<>>
    /\ envelope = <<>>
    /\ offset = <<>>
    /\ raised = NotRaised
    /\ envelope_rate = 0
    /\ flux = <<>>
    /\ local_floor = <<>>
    /\ floor_scale = 1
    /\ min_spacing_samples = 0
    /\ markers = <<>>
    /\ last_pick = 0
    /\ index = 0
    /\ normalized = <<>>
    /\ CacheIdle
    /\ SmoothIdle
    /\ PlanIdle
    /\ LagIdle

beat_inputs == <<inputs, min_spacing_seconds, max_markers, normalized, cache_vars, smooth_vars, plan_vars, lag_vars>>

sync_locals == <<coarse_candidates, refined, deduped, result, offset, raised>>

\* A detector that returns early for an empty signal only.
EarlyReturn_EmptyOnly(signal, rate) == signal = <<>>

\* Line 30: sample_rate <= 0 or not signal
EarlyReturn(signal, rate) == rate <= 0 \/ signal = <<>>

\* Lines 30-52: the early returns, the envelope, flux and local_floor.  A
\* ValueError of _envelope_downsample would leave the call.
BeatStart ==
    /\ pc = "called"
    /\ call = "detect_beat_markers"
    /\ IF EarlyReturn(reference, sample_rate)
       THEN /\ pc' = "returned"
            /\ UNCHANGED <<envelope, envelope_rate, flux, local_floor, floor_scale,
                           min_spacing_samples, last_pick, index, raised>>
       ELSE LET returned == EnvelopeDownsample(reference, sample_rate, target_rate)
            IN  IF returned.raised
                THEN /\ raised' = "sample_rate must be positive"
                     /\ pc' = "raised"
                     /\ UNCHANGED <<envelope, envelope_rate, flux, local_floor, floor_scale,
                                    min_spacing_samples, last_pick, index>>
                ELSE /\ envelope' = <<returned>>
                     /\ envelope_rate' = returned.rate
                     /\ UNCHANGED raised
                     /\ IF returned.values = <<>> \/ returned.rate <= 0
                        THEN /\ pc' = "returned"
                             /\ UNCHANGED <<flux, local_floor, floor_scale,
                                            min_spacing_samples, last_pick, index>>
                        ELSE /\ flux' = Flux(returned.values, returned.rate)
                             /\ local_floor' = LocalFloor(flux', returned.rate)
                             /\ floor_scale' = LcmUpTo(FloorWindow(returned.rate))
                             /\ min_spacing_samples' =
                                    MinSpacingSamples(min_spacing_seconds, returned.rate)
                             /\ last_pick' = -min_spacing_samples'
                             /\ index' = 1
                             /\ pc' = "scan"
    /\ UNCHANGED <<beat_inputs, coarse_candidates, refined, deduped, result, offset, markers>>

\* flux[index] is a peak: at least the threshold and at least both neighbours
\* (lines 54-59).
IsPeak ==
    /\ ~BelowThreshold(flux[index + 1], MaxUpTo(flux, Len(flux)), local_floor[index + 1],
                       floor_scale)
    /\ flux[index + 1] >= flux[index]
    /\ flux[index + 1] >= flux[index + 2]

InLoop == pc = "scan" /\ index < Len(flux) - 1

TooClose == index - last_pick < min_spacing_samples

Stronger == markers # <<>> /\ flux[index + 1] > flux[last_pick + 1]

\* Lines 56-59 and 60-64 without the replacement: `continue`.
BeatSkip ==
    /\ InLoop
    /\ ~IsPeak \/ (TooClose /\ ~Stronger)
    /\ index' = index + 1
    /\ UNCHANGED <<beat_inputs, sync_locals, pc, envelope, envelope_rate, flux, local_floor,
                   floor_scale, min_spacing_samples, markers, last_pick>>

\* Lines 60-64: a stronger peak too close to the last marker replaces it.
BeatReplace ==
    /\ InLoop
    /\ IsPeak
    /\ TooClose
    /\ Stronger
    /\ markers' = [markers EXCEPT ![Len(markers)] = Seconds(index, envelope_rate)]
    /\ last_pick' = index
    /\ index' = index + 1
    /\ UNCHANGED <<beat_inputs, sync_locals, pc, envelope, envelope_rate, flux, local_floor,
                   floor_scale, min_spacing_samples>>

\* Lines 65-68: a new marker, and the end of the loop at max_markers.
BeatAppend ==
    /\ InLoop
    /\ IsPeak
    /\ ~TooClose
    /\ markers' = Append(markers, Seconds(index, envelope_rate))
    /\ last_pick' = index
    /\ IF Len(markers') >= max_markers
       THEN pc' = "returned" /\ UNCHANGED index
       ELSE index' = index + 1 /\ UNCHANGED pc
    /\ UNCHANGED <<beat_inputs, sync_locals, envelope, envelope_rate, flux, local_floor,
                   floor_scale, min_spacing_samples>>

\* Line 70, after the last index of range(1, len(flux) - 1).
BeatReturn ==
    /\ pc = "scan"
    /\ index >= Len(flux) - 1
    /\ pc' = "returned"
    /\ UNCHANGED <<beat_inputs, sync_locals, envelope, envelope_rate, flux, local_floor,
                   floor_scale, min_spacing_samples, markers, last_pick, index>>

BeatNext ==
    \/ BeatStart
    \/ BeatSkip
    \/ BeatReplace
    \/ BeatAppend
    \/ BeatReturn

BeatSpec == InitBeat /\ [][BeatNext]_vars

\* ------------------------------------------------------------ properties
\* estimate_sync_candidates has returned its list (to its caller, or to
\* estimate_sync_offset, which has then returned too).
Returned == call \in SyncCalls /\ pc \in {"returned", "done"}

end_anchor_seconds == EndAnchorSeconds(reference, candidate, sample_rate)

\* The final dedupe kept a list that the end-anchor splice then changed.
Spliced ==
    /\ Returned
    /\ refined # <<>>
    /\ deduped # FinalRanking(refined, limit)

Silent(signal) == \A i \in 1..Len(signal) : signal[i] = 0

\* C2 as stated: the top candidate of every non-empty returned list has
\* score_ratio 1.0.
C2_TopRatioIsOne ==
    (Returned /\ result # <<>>) => RatioIsOne(result[1].score_ratio)

\* C2, amended: the top candidate of a non-empty returned list has score_ratio
\* 1.0 unless its score is zero (abs(best_score) <= 1e-9), and then every
\* score_ratio of the list is 0.0.
C2_TopRatioIsOneUnlessZero ==
    (Returned /\ result # <<>>) =>
        IF result[1].score.num # 0
        THEN RatioIsOne(result[1].score_ratio)
        ELSE \A i \in 1..Len(result) : RatioIsZero(result[i].score_ratio)

C2_Witness ==
    /\ Returned
    /\ Len(result) >= 2
    /\ RatioIsOne(result[1].score_ratio)
    /\ ~RatioIsOne(result[2].score_ratio)

\* C3: the returned list is ordered by non-increasing score, also after the
\* end-anchor splice.
C3_SortedByScore ==
    Returned =>
        \A i, j \in 1..Len(result) : i < j => ~ScoreLess(result[i].score, result[j].score)

C3_Witness ==
    /\ Spliced
    /\ Len(result) >= 2
    /\ ScoreLess(result[2].score, result[1].score)

\* C4: no two candidates of the returned list have lags closer than 0.35 s,
\* also after the end-anchor splice.
C4_LagsApart ==
    Returned =>
        \A i, j \in 1..Len(result) :
            i # j => ~Closer(result[i].lag_seconds, result[j].lag_seconds, 35)

C4_Witness ==
    /\ Returned
    /\ Len(result) >= 2
    /\ ScoreLess(result[2].score, result[1].score)
    /\ \E i \in 1..Len(refined) :
           /\ \A k \in 1..Len(result) :
                  ~SecondsEq(refined[i].lag_seconds, result[k].lag_seconds)
           /\ \E k \in 1..Len(result) :
                  Closer(refined[i].lag_seconds, result[k].lag_seconds, 35)

\* C5: the returned list has at most `limit` candidates, also when the
\* end-anchor choice is spliced into a full list.
C5_AtMostLimit == Returned => Len(result) <= limit

C5_Witness ==
    /\ Spliced
    /\ Len(result) = limit
    /\ Len(refined) > limit

\* C6: when the candidate is longer than the reference and some refined
\* candidate lies within 2.5 s of the end anchor, the returned list has a
\* candidate within 0.35 s of a best-scoring such refined candidate.
NearEndAnchor == {i \in 1..Len(refined) : Within(refined[i].lag_seconds, end_anchor_seconds, 250)}

BestNearEndAnchor ==
    {i \in NearEndAnchor :
        \A j \in NearEndAnchor : ~ScoreLess(refined[i].score, refined[j].score)}

C6_EndAnchorRepresented ==
    (Returned /\ end_anchor_seconds.num > 0 /\ NearEndAnchor # {}) =>
        \E i \in BestNearEndAnchor :
            \E k \in 1..Len(result) :
                Closer(result[k].lag_seconds, refined[i].lag_seconds, 35)

C6_Witness ==
    /\ Spliced
    /\ end_anchor_seconds.num > 0
    /\ NearEndAnchor # {}
    /\ ScoreLess(result[Len(result)].score, result[1].score)

\* C7 as stated: with sample_rate > 0, estimate_sync_candidates and
\* estimate_sync_offset never raise, and an empty signal gives an empty list
\* (offset 0.0).
C7_NeverRaises ==
    (call \in SyncCalls /\ sample_rate > 0) =>
        /\ pc # "raised"
        /\ raised = NotRaised
        /\ (Returned /\ (reference = <<>> \/ candidate = <<>>)) => result = <<>>

\* C8: each of the four entry points raises ValueError when sample_rate <= 0,
\* whatever the signal, before it has computed anything.
C8_InvalidSampleRateRaises ==
    (sample_rate <= 0 /\ pc # "called") =>
        /\ pc = "raised"
        /\ raised = "sample_rate must be positive"
        /\ coarse_candidates = <<>>
        /\ refined = <<>>
        /\ result = <<>>
        /\ envelope = <<>>
        /\ offset = <<>>

C8_Witness ==
    /\ pc = "raised"
    /\ sample_rate <= 0
    /\ call = "_vocal_emphasis_envelope_downsample"
    /\ numpy
    /\ reference = <<>>

\* C9 as stated: estimate_sync_offset returns the lag of the one candidate of
\* estimate_sync_candidates(limit=1), 0.0 when there is none, and so 0.0 for
\* silent inputs and for inputs too short for any lag to reach the minimum
\* overlap.
C9_OffsetOfTopCandidate ==
    (call = "estimate_sync_offset" /\ pc = "done") =>
        /\ limit = 1
        /\ offset = IF result = <<>> THEN <<Seconds(0, 1)>> ELSE <<result[1].lag_seconds>>
        /\ (Len(reference) < 4 \/ Len(candidate) < 4) => offset[1].num = 0
        /\ (Silent(reference) /\ Silent(candidate)) => offset[1].num = 0

\* ------------------------------------------------- the envelope functions
\* Calls of _envelope_downsample and _vocal_emphasis_envelope_downsample alone,
\* also with signals of SpectralLen samples: at 48 Hz the high cut is below
\* 200 Hz, at 403 Hz no frequency bin of 8 samples lies in the band, at 4000 Hz
\* the spectral branch is taken.
SpectralLen == 8
SpectralRates == {403, 4000}

InitEnvelopeCall ==
    /\ call \in EnvelopeCalls
    /\ numpy \in BOOLEAN
    /\ sample_rate \in SampleRates \cup SpectralRates
    /\ target_rate \in TargetRates
    /\ reference \in SeqsOfLen(EnvelopeValues, 0, 3) \cup [1..SpectralLen -> {-1, 1}]
    /\ candidate = <<>>
    /\ max_shift_seconds = 0
    /\ limit = 0
    /\ pc = "called"
    /\ coarse_candidates = <<>>
    /\ refined = <<>>
    /\ deduped = <<>>
    /\ result = <<>>
    /\ envelope = <<>>
    /\ offset = <<>>
    /\ raised = NotRaised
    /\ BeatIdle
    /\ normalized = <<>>
    /\ CacheIdle
    /\ SmoothIdle
    /\ PlanIdle
    /\ LagIdle

EnvelopeNext == EnvelopeStep

EnvelopeSpec == InitEnvelopeCall /\ [][EnvelopeNext]_vars

\* ------------------------------------------------------------ _normalize
\* The longest signal and the samples of a call of _normalize.
MaxNormalizeLen == 4
NormalizeValues == {-1, 0, 1, 2}

InitNormalize ==
    /\ call = "_normalize"
    /\ numpy = TRUE
    /\ reference \in SeqsOfLen(NormalizeValues, 0, MaxNormalizeLen)
    /\ candidate = <<>>
    /\ sample_rate = 0
    /\ target_rate = 0
    /\ max_shift_seconds = 0
    /\ limit = 0
    /\ pc = "called"
    /\ coarse_candidates = <<>>
    /\ refined = <<>>
    /\ deduped = <<>>
    /\ result = <<>>
    /\ envelope = <<>>
    /\ offset = <<>>
    /\ raised = NotRaised
    /\ BeatIdle
    /\ normalized = <<>>
    /\ CacheIdle
    /\ SmoothIdle
    /\ PlanIdle
    /\ LagIdle

NormalizeStep ==
    /\ pc = "called"
    /\ call = "_normalize"
    /\ normalized' = <<Normalize(reference)>>
    /\ pc' = "returned"
    /\ UNCHANGED <<inputs, sync_locals, envelope, beat_vars, cache_vars, smooth_vars, plan_vars, lag_vars>>

NormalizeNext == NormalizeStep

NormalizeSpec == InitNormalize /\ [][NormalizeNext]_vars

\* C18 as stated: when the candidate is not longer than the reference, no
\* injected candidate is in the coarse pool and none is returned.
C18_InjectedOnlyWhenLonger ==
    (call \in SyncCalls /\ Len(candidate) <= Len(reference)) =>
        /\ \A i \in 1..Len(coarse_candidates) : ~IsInjected(coarse_candidates[i])
        /\ \A i \in 1..Len(result) : ~result[i].injected

\* The same of the returned list alone.
C18_ReturnedInjected ==
    (Returned /\ Len(candidate) <= Len(reference)) =>
        \A i \in 1..Len(result) : ~result[i].injected

\* ------------------------------------------------- POST /analyze
\* The requests the threaded server handles, each in a thread of its own, and
\* the analysis keys (hashes of uploads and options) they carry.
MaxRequests == 3
MaxKeys == 2
Requests == 1..MaxRequests
Keys == 1..MaxKeys

\* No function of the alignment engine is under call.
SyncIdle ==
    /\ call = "none"
    /\ numpy = TRUE
    /\ reference = <<>>
    /\ candidate = <<>>
    /\ sample_rate = 0
    /\ target_rate = 0
    /\ max_shift_seconds = 0
    /\ limit = 0
    /\ pc = "idle"
    /\ coarse_candidates = <<>>
    /\ refined = <<>>
    /\ deduped = <<>>
    /\ result = <<>>
    /\ envelope = <<>>
    /\ offset = <<>>
    /\ raised = NotRaised

sync_vars == <<inputs, pc, sync_locals, envelope>>

NoRequest == [pc |-> "idle", analysis_key |-> 0, late |-> FALSE, analysis_id |-> 0, status |-> 0]

InitCache ==
    /\ SyncIdle
    /\ BeatIdle
    /\ normalized = <<>>
    /\ request = [r \in Requests |-> NoRequest]
    /\ analysis_dir = <<>>
    /\ issued = 0
    /\ SmoothIdle
    /\ PlanIdle
    /\ LagIdle

\* The analysis_ids whose file holds a written analysis of analysis_key.
Stored(analysis_key) ==
    {id \in DOMAIN analysis_dir :
        analysis_dir[id].written /\ analysis_dir[id].analysis_key = analysis_key}

\* The files whose content is not written yet: write_text has opened (and so
\* created) the file and has not closed it.
Unwritten == {id \in DOMAIN analysis_dir : ~analysis_dir[id].written}

\* Lines 158-191 of _handle_analyze: the request is read, the uploads are
\* persisted and analysis_key is computed.
Arrive(r) ==
    /\ request[r].pc = "idle"
    /\ \E analysis_key \in Keys :
           request' = [request EXCEPT ![r] = [pc |-> "find", analysis_key |-> analysis_key,
                                              late |-> Stored(analysis_key) # {},
                                              analysis_id |-> 0, status |-> 0]]
    /\ UNCHANGED <<sync_vars, beat_vars, normalized, smooth_vars, plan_vars, lag_vars, analysis_dir, issued>>

\* Lines 192-195, find_analysis_by_key (cache.py:51-56) finds a file of the key:
\* the stored analysis is sent.  glob yields the files in no particular order,
\* so any file of the key may be the one found.
FindHit(r) ==
    /\ request[r].pc = "find"
    /\ \E id \in Stored(request[r].analysis_key) :
           request' = [request EXCEPT ![r].pc = "done", ![r].analysis_id = id,
                                      ![r].status = 200]
    /\ UNCHANGED <<sync_vars, beat_vars, normalized, smooth_vars, plan_vars, lag_vars, analysis_dir, issued>>

\* find_analysis_by_key reads a file whose content is not written yet:
\* json.loads raises, and line 205 sends status 500.  The file is read when glob
\* yields it before a file of the key, and always when there is no file of the
\* key.
FindRaises(r) ==
    /\ request[r].pc = "find"
    /\ Unwritten # {}
    /\ request' = [request EXCEPT ![r].pc = "failed", ![r].status = 500]
    /\ UNCHANGED <<sync_vars, beat_vars, normalized, smooth_vars, plan_vars, lag_vars, analysis_dir, issued>>

\* find_analysis_by_key returns None.
FindMiss(r) ==
    /\ request[r].pc = "find"
    /\ Stored(request[r].analysis_key) = {}
    /\ Unwritten = {}
    /\ request' = [request EXCEPT ![r].pc = "analyze"]
    /\ UNCHANGED <<sync_vars, beat_vars, normalized, smooth_vars, plan_vars, lag_vars, analysis_dir, issued>>

\* Lines 197-202, _analyze_media (304-354): the analysis with a fresh
\* analysis_id (uuid4).
Analyze(r) ==
    /\ request[r].pc = "analyze"
    /\ issued' = issued + 1
    /\ request' = [request EXCEPT ![r].pc = "save", ![r].analysis_id = issued + 1]
    /\ UNCHANGED <<sync_vars, beat_vars, normalized, smooth_vars, plan_vars, lag_vars, analysis_dir>>

\* _analyze_media raises (the media tool fails): status 500.
AnalyzeRaises(r) ==
    /\ request[r].pc = "analyze"
    /\ request' = [request EXCEPT ![r].pc = "failed", ![r].status = 500]
    /\ UNCHANGED <<sync_vars, beat_vars, normalized, smooth_vars, plan_vars, lag_vars, analysis_dir, issued>>

\* Line 203, save_analysis (cache.py:58-63): write_text opens the file ...
SaveOpen(r) ==
    /\ request[r].pc = "save"
    /\ analysis_dir' = [id \in DOMAIN analysis_dir \cup {request[r].analysis_id} |->
                           IF id = request[r].analysis_id
                           THEN [analysis_key |-> request[r].analysis_key, written |-> FALSE]
                           ELSE analysis_dir[id]]
    /\ request' = [request EXCEPT ![r].pc = "write"]
    /\ UNCHANGED <<sync_vars, beat_vars, normalized, smooth_vars, plan_vars, lag_vars, issued>>

\* ... and writes and closes it; line 204 sends the saved analysis.
SaveWrite(r) ==
    /\ request[r].pc = "write"
    /\ analysis_dir' = [analysis_dir EXCEPT ![request[r].analysis_id].written = TRUE]
    /\ request' = [request EXCEPT ![r].pc = "done", ![r].status = 200]
    /\ UNCHANGED <<sync_vars, beat_vars, normalized, smooth_vars, plan_vars, lag_vars, issued>>

CacheNext ==
    \E r \in Requests :
        \/ Arrive(r)
        \/ FindHit(r)
        \/ FindRaises(r)
        \/ FindMiss(r)
        \/ Analyze(r)
        \/ AnalyzeRaises(r)
        \/ SaveOpen(r)
        \/ SaveWrite(r)

CacheSpec == InitCache /\ [][CacheNext]_vars

\* ------------------------------------------------------ reframing.py
\* A clamp without its upper bound.
Clamp_MinOnly(value, minimum, maximum) == Max(minimum, value)

\* _clamp: max(minimum, min(value, maximum))
Clamp(value, minimum, maximum) == Max(minimum, Min(value, maximum))

TransformPlan(scale, position_x, position_y) == [scale |-> scale, position_x |-> position_x, position_y |-> position_y]

\* The longest list of transforms, and the scales, positions and deltas of a
\* call (hundredths): scales inside and above [1.0, 2.2], positions inside and
\* below [-1.0, 1.0], a negative pan delta.
MaxTransforms == 3
ScaleValues == {100, 180, 300}
PositionValues == {-150, 0, 90}
PanDeltas == {-20, 20}
ZoomDeltas == {15}

Transforms == {TransformPlan(s, x, y) : s \in ScaleValues, x \in PositionValues, y \in PositionValues}

InitSmooth ==
    /\ call = "smooth_transforms"
    /\ numpy = TRUE
    /\ reference = <<>>
    /\ candidate = <<>>
    /\ sample_rate = 0
    /\ target_rate = 0
    /\ max_shift_seconds = 0
    /\ limit = 0
    /\ pc = "called"
    /\ coarse_candidates = <<>>
    /\ refined = <<>>
    /\ deduped = <<>>
    /\ result = <<>>
    /\ envelope = <<>>
    /\ offset = <<>>
    /\ raised = NotRaised
    /\ BeatIdle
    /\ normalized = <<>>
    /\ request = <<>>
    /\ analysis_dir = <<>>
    /\ issued = 0
    /\ transforms \in SeqsOfLen(Transforms, 0, MaxTransforms)
    /\ max_pan_delta \in PanDeltas
    /\ max_zoom_delta \in ZoomDeltas
    /\ smoothed = <<>>
    /\ PlanIdle
    /\ LagIdle

\* Lines 27-50 for one transform after `previous`.
Smoothed(transform, previous, pan_delta, zoom_delta) ==
    TransformPlan(
        Clamp(Clamp(transform.scale, previous.scale - zoom_delta,
                    previous.scale + zoom_delta), 100, 220),
        Clamp(Clamp(transform.position_x, previous.position_x - pan_delta,
                    previous.position_x + pan_delta), -100, 100),
        Clamp(Clamp(transform.position_y, previous.position_y - pan_delta,
                    previous.position_y + pan_delta), -100, 100))

\* Lines 16-25: an empty list is returned at once, else the first transform is
\* copied.
SmoothStart ==
    /\ call = "smooth_transforms"
    /\ pc = "called"
    /\ IF transforms = <<>>
       THEN pc' = "returned" /\ UNCHANGED smoothed
       ELSE /\ smoothed' = <<TransformPlan(transforms[1].scale, transforms[1].position_x,
                                           transforms[1].position_y)>>
            /\ pc' = "loop"
    /\ UNCHANGED <<inputs, sync_locals, envelope, beat_vars, normalized, cache_vars,
                   plan_vars, lag_vars, transforms, max_pan_delta, max_zoom_delta>>

\* One iteration of the loop of line 27.
SmoothStep ==
    /\ pc = "loop"
    /\ Len(smoothed) < Len(transforms)
    /\ smoothed' = Append(smoothed,
                          Smoothed(transforms[Len(smoothed) + 1], smoothed[Len(smoothed)],
                                   max_pan_delta, max_zoom_delta))
    /\ UNCHANGED <<inputs, pc, sync_locals, envelope, beat_vars, normalized, cache_vars,
                   plan_vars, lag_vars, transforms, max_pan_delta, max_zoom_delta>>

\* Line 52.
SmoothReturn ==
    /\ pc = "loop"
    /\ Len(smoothed) = Len(transforms)
    /\ pc' = "returned"
    /\ UNCHANGED <<inputs, sync_locals, envelope, beat_vars, normalized, cache_vars,
                   smooth_vars, plan_vars, lag_vars>>

SmoothNext ==
    \/ SmoothStart
    \/ SmoothStep
    \/ SmoothReturn

SmoothSpec == InitSmooth /\ [][SmoothNext]_vars

\* ------------------------------------------------ validate_segment_plan
SegmentPlan(segment_id, start, end, source_start, source_end, transform, reasons, lead_confidence, blur_regions) == [segment_id |-> segment_id, start |-> start, end |-> end, source_start |-> source_start, source_end |-> source_end, transform |-> transform, reasons |-> reasons, lead_confidence |-> lead_confidence, blur_regions |-> blur_regions]

\* The checks of one segment without the one on overlap.
SegmentError_NoOverlapCheck(plan, at) ==
    IF plan[at].start < 0 THEN "Segment start cannot be negative"
    ELSE IF plan[at].end <= plan[at].start THEN "Segment end must be greater than start"
    ELSE IF plan[at].source_end <= plan[at].source_start
    THEN "Source end must be greater than source start"
    ELSE NotRaised

\* Lines 94-101 for the segment at index `at` - 1: the message of the
\* ValueError it raises, or NotRaised.  previous_end is the end of the segment
\* before it (line 102).
SegmentError(plan, at) ==
    IF plan[at].start < 0 THEN "Segment start cannot be negative"
    ELSE IF plan[at].end <= plan[at].start THEN "Segment end must be greater than start"
    ELSE IF plan[at].source_end <= plan[at].source_start
    THEN "Source end must be greater than source start"
    ELSE IF at > 1 /\ plan[at].start < plan[at - 1].end
    THEN "Segments must not overlap"
    ELSE NotRaised

\* validate_segment_plan: the error of the first segment that has one.
ValidateSegmentPlan(plan) ==
    IF \E i \in 1..Len(plan) : SegmentError(plan, i) # NotRaised
    THEN SegmentError(plan, CHOOSE i \in 1..Len(plan) :
                                /\ SegmentError(plan, i) # NotRaised
                                /\ \A j \in 1..(i - 1) : SegmentError(plan, j) = NotRaised)
    ELSE NotRaised

\* The longest list of segments of a call of validate_segment_plan, and the
\* times of its segments.
MaxSegments == 3
StartValues == {-1, 0, 1, 2}
EndValues == {0, 1, 2, 3}
SourceValues == {0, 1}

SegmentPlans == {SegmentPlan(1, s, e, ss, se, TransformPlan(100, 0, 0), <<>>, 0, <<>>) : s \in StartValues, e \in EndValues, ss \in SourceValues, se \in SourceValues}

InitValidate ==
    /\ call = "validate_segment_plan"
    /\ numpy = TRUE
    /\ reference = <<>>
    /\ candidate = <<>>
    /\ sample_rate = 0
    /\ target_rate = 0
    /\ max_shift_seconds = 0
    /\ limit = 0
    /\ pc = "called"
    /\ coarse_candidates = <<>>
    /\ refined = <<>>
    /\ deduped = <<>>
    /\ result = <<>>
    /\ envelope = <<>>
    /\ offset = <<>>
    /\ raised = NotRaised
    /\ BeatIdle
    /\ normalized = <<>>
    /\ CacheIdle
    /\ SmoothIdle
    /\ duration_seconds = 0
    /\ options = AnalyzeOptions("whole_song", None, TRUE, TRUE)
    /\ target_duration = 0
    /\ cursor = 0
    /\ slices = <<>>
    /\ raw_transforms = <<>>
    /\ segments \in SeqsOfLen(SegmentPlans, 0, MaxSegments)
    /\ LagIdle

\* The call of validate_segment_plan: it returns None or raises.
ValidateStep ==
    /\ call = "validate_segment_plan"
    /\ pc = "called"
    /\ raised' = ValidateSegmentPlan(segments)
    /\ pc' = IF raised' = NotRaised THEN "returned" ELSE "raised"
    /\ UNCHANGED <<inputs, coarse_candidates, refined, deduped, result, offset, envelope,
                   beat_vars, normalized, cache_vars, smooth_vars, plan_vars, lag_vars>>

ValidateNext == ValidateStep

ValidateSpec == InitValidate /\ [][ValidateNext]_vars

\* --------------------------------------------------- build_segment_plan
\* An option that is neither None nor 0 (line 19).
Truthy(option) == option # None /\ option[1] # 0

\* Lines 19-22.
TargetDuration(duration, opts) ==
    IF opts.clip_mode = "minutes" /\ Truthy(opts.max_clip_minutes)
    THEN Min(duration, opts.max_clip_minutes[1] * 6000)
    ELSE duration

\* Line 24.
cadence_seconds == 175

\* A slice that is not cut at the target duration.
SliceEnd_Uncut(target, start) == start + cadence_seconds

\* Line 30.
SliceEnd(target, start) == Min(target, start + cadence_seconds)

\* Lines 33, 34, 36 and 82 for index 0..35, rounded: 0.08 * sin(0.73 * index),
\* 0.18 * sin(0.51 * index) and 0.06 * cos(0.34 * index) in hundredths,
\* round(0.6 + 0.25 * abs(sin(0.37 * index)), 3) in thousandths.
ScaleSwing == <<0, 5, 8, 7, 2, -4, -8, -7, -3, 2, 7, 8, 5, -1, -6, -8, -6, -1, 4, 8, 7, 3, -3, -7, -8, -5, 1, 6, 8, 6, 1, -5, -8, -7, -2, 3>>
PanSwing == <<0, 9, 15, 18, 16, 10, 1, -7, -15, -18, -17, -11, -3, 6, 14, 18, 17, 12, 4, -5, -13, -17, -18, -13, -6, 3, 12, 17, 18, 14, 7, -2, -10, -16, -18, -15>>
TiltSwing == <<6, 6, 5, 3, 1, -1, -3, -4, -5, -6, -6, -5, -4, -2, 0, 2, 4, 5, 6, 6, 5, 4, 2, 0, -2, -4, -5, -6, -6, -5, -4, -3, -1, 1, 3, 5>>
LeadConfidence == <<600, 690, 769, 824, 849, 840, 799, 731, 645, 647, 732, 800, 841, 849, 823, 767, 689, 602, 692, 770, 825, 849, 840, 798, 730, 643, 648, 734, 801, 841, 849, 822, 766, 687, 603, 694>>

\* Lines 32-43 for index `at`.
RawTransform(at, opts) ==
    TransformPlan((IF opts.prefer_lead_singer THEN 118 ELSE 108) + ScaleSwing[at + 1],
                  PanSwing[at + 1],
                  -18 + TiltSwing[at + 1])

\* Lines 56-63 and 71.
Reasons(opts, blurred) ==
    <<"lead face heuristic weighted center-stage", "stable pan/zoom smoothing applied">>
    \o (IF opts.privacy_protect_crowd THEN <<"crowd region de-prioritized">> ELSE <<>>)
    \o (IF opts.prefer_lead_singer THEN <<"lead singer preference enabled">> ELSE <<>>)
    \o (IF blurred THEN <<"crowd faces likely visible; bottom-region blur flagged">> ELSE <<>>)

\* Lines 66-67.
CrowdRisk(transform, opts) ==
    /\ opts.privacy_protect_crowd
    /\ Abs(transform.position_y) < 6
    /\ transform.scale < 110

\* Line 69, in hundredths.
BlurRegion == [x |-> 0, y |-> 70, width |-> 100, height |-> 30, strength |-> 70]

\* Lines 55-85 for index `at`; the segment_id "seg-<n>" is the number n.
Segment(at, time_range, transform, opts) ==
    SegmentPlan(at + 1, time_range[1], time_range[2], time_range[1], time_range[2],
                transform, Reasons(opts, CrowdRisk(transform, opts)),
                LeadConfidence[at + 1],
                IF CrowdRisk(transform, opts) THEN <<BlurRegion>> ELSE <<>>)

\* The durations of the media (hundredths of a second) and the options of the
\* calls: below, at and above one cadence and one minute.
DurationValues == {-100, 0, 50, 175, 176, 350, 1000, 6000, 6100}
ClipModes == {"whole_song", "minutes"}
ClipMinutes == {None, Some(-1), Some(0), Some(1)}

InitPlan ==
    /\ call = "build_segment_plan"
    /\ numpy = TRUE
    /\ reference = <<>>
    /\ candidate = <<>>
    /\ sample_rate = 0
    /\ target_rate = 0
    /\ max_shift_seconds = 0
    /\ limit = 0
    /\ pc = "called"
    /\ coarse_candidates = <<>>
    /\ refined = <<>>
    /\ deduped = <<>>
    /\ result = <<>>
    /\ envelope = <<>>
    /\ offset = <<>>
    /\ raised = NotRaised
    /\ BeatIdle
    /\ normalized = <<>>
    /\ CacheIdle
    /\ SmoothIdle
    /\ duration_seconds \in DurationValues
    /\ options \in {AnalyzeOptions(m, c, p, l) : m \in ClipModes, c \in ClipMinutes, p \in BOOLEAN, l \in BOOLEAN}
    /\ target_duration = 0
    /\ cursor = 0
    /\ slices = <<>>
    /\ raw_transforms = <<>>
    /\ segments = <<>>
    /\ LagIdle

plan_rest == <<inputs, coarse_candidates, refined, deduped, result, offset, envelope, beat_vars, normalized, cache_vars, lag_vars, duration_seconds, options>>

\* Lines 15-28.
PlanStart ==
    /\ call = "build_segment_plan"
    /\ pc = "called"
    /\ IF duration_seconds <= 0
       THEN pc' = "returned" /\ UNCHANGED target_duration
       ELSE /\ target_duration' = TargetDuration(duration_seconds, options)
            /\ pc' = "slicing"
    /\ UNCHANGED <<plan_rest, raised, smooth_vars, cursor, slices, raw_transforms, segments>>

\* One iteration of the loop of line 29.
PlanSlice ==
    /\ pc = "slicing"
    /\ cursor < target_duration
    /\ slices' = Append(slices, <<cursor, SliceEnd(target_duration, cursor)>>)
    /\ raw_transforms' = Append(raw_transforms, RawTransform(Len(slices), options))
    /\ cursor' = SliceEnd(target_duration, cursor)
    /\ UNCHANGED <<plan_rest, pc, raised, smooth_vars, target_duration, segments>>

\* The call of line 47, at the end of the loop, up to the loop of
\* smooth_transforms (reframing.py, lines 16-25).
PlanSmooth ==
    /\ pc = "slicing"
    /\ ~(cursor < target_duration)
    /\ transforms' = raw_transforms
    /\ max_pan_delta' = 18
    /\ max_zoom_delta' = 12
    /\ smoothed' = IF raw_transforms = <<>> THEN <<>>
                   ELSE <<TransformPlan(raw_transforms[1].scale, raw_transforms[1].position_x,
                                        raw_transforms[1].position_y)>>
    /\ pc' = "smoothing"
    /\ UNCHANGED <<plan_rest, raised, target_duration, cursor, slices, raw_transforms, segments>>

\* One iteration of the loop of smooth_transforms (reframing.py, line 27).
PlanSmoothStep ==
    /\ pc = "smoothing"
    /\ Len(smoothed) < Len(transforms)
    /\ smoothed' = Append(smoothed,
                          Smoothed(transforms[Len(smoothed) + 1], smoothed[Len(smoothed)],
                                   max_pan_delta, max_zoom_delta))
    /\ UNCHANGED <<plan_rest, pc, raised, transforms, max_pan_delta, max_zoom_delta,
                   target_duration, cursor, slices, raw_transforms, segments>>

\* smooth_transforms returns (reframing.py, line 52).
PlanSmoothed ==
    /\ pc = "smoothing"
    /\ Len(smoothed) = Len(transforms)
    /\ pc' = "building"
    /\ UNCHANGED <<plan_rest, raised, smooth_vars, plan_vars, lag_vars>>

\* One iteration of the loop of line 54.
PlanSegment ==
    /\ pc = "building"
    /\ Len(segments) < Min(Len(slices), Len(smoothed))
    /\ segments' = Append(segments,
                          Segment(Len(segments), slices[Len(segments) + 1],
                                  smoothed[Len(segments) + 1], options))
    /\ UNCHANGED <<plan_rest, pc, raised, smooth_vars, target_duration, cursor, slices,
                   raw_transforms>>

\* Lines 87-88.
PlanValidate ==
    /\ pc = "building"
    /\ Len(segments) = Min(Len(slices), Len(smoothed))
    /\ raised' = ValidateSegmentPlan(segments)
    /\ pc' = IF raised' = NotRaised THEN "returned" ELSE "raised"
    /\ UNCHANGED <<plan_rest, smooth_vars, target_duration, cursor, slices, raw_transforms,
                   segments>>

PlanNext ==
    \/ PlanStart
    \/ PlanSlice
    \/ PlanSmooth
    \/ PlanSmoothStep
    \/ PlanSmoothed
    \/ PlanSegment
    \/ PlanValidate

\* The function runs on: no step of it waits for anything.
PlanSpec == InitPlan /\ [][PlanNext]_vars /\ WF_vars(PlanNext)

\* ------------------------------------- the helpers of the alignment engine
\* The longest reference of a call of a helper (the candidate may have one
\* sample more), the largest lag and the largest limit.
MaxOverlapLen == 5
MaxLag == 2
MaxPeaks == 3

\* The sample rates of the calls: the least overlap is 4 samples at 1 and 24 Hz
\* and 5 at 25 Hz.
LagRates == {1, 24, 25}

SliceValues == {1, 2}
PulseValues == {0, 1}

LagCalls == {"_slice_overlap", "_local_ncc_score", "_top_correlation_lags"}

InitLag ==
    /\ call \in LagCalls
    /\ numpy = TRUE
    /\ target_rate = 0
    /\ max_shift_seconds = 0
    /\ pc = "called"
    /\ coarse_candidates = <<>>
    /\ refined = <<>>
    /\ deduped = <<>>
    /\ result = <<>>
    /\ envelope = <<>>
    /\ offset = <<>>
    /\ raised = NotRaised
    /\ BeatIdle
    /\ normalized = <<>>
    /\ CacheIdle
    /\ SmoothIdle
    /\ PlanIdle
    /\ fine_reference_vocal = <<>>
    /\ fine_candidate_vocal = <<>>
    /\ \/ /\ call = "_slice_overlap"
          /\ reference \in SeqsOfLen(SliceValues, 0, MaxOverlapLen - 2)
          /\ candidate \in SeqsOfLen(SliceValues, 0, MaxOverlapLen - 2)
          /\ lag \in (-2 * MaxLag)..(2 * MaxLag)
          /\ sample_rate = 0
          /\ limit = 0
          /\ min_lag_samples = 0
          /\ max_lag_samples = 0
          /\ min_peak_distance_samples = 0
       \/ /\ call = "_local_ncc_score"
          /\ reference \in SeqsOfLen(PulseValues, MaxOverlapLen - 1, MaxOverlapLen)
          /\ candidate \in SeqsOfLen(PulseValues, MaxOverlapLen - 1, MaxOverlapLen)
          /\ lag \in (-MaxLag)..MaxLag
          /\ sample_rate \in LagRates
          /\ limit = 0
          /\ min_lag_samples = 0
          /\ max_lag_samples = 0
          /\ min_peak_distance_samples = 0
       \/ /\ call = "_top_correlation_lags"
          /\ reference \in SeqsOfLen(PulseValues, MaxOverlapLen - 2, MaxOverlapLen)
          /\ candidate \in SeqsOfLen(PulseValues, MaxOverlapLen - 1, MaxOverlapLen + 1)
          /\ lag = 0
          /\ sample_rate \in LagRates \ {1}
          /\ limit \in 1..MaxPeaks
          /\ min_lag_samples = -MaxLag
          /\ max_lag_samples = MaxLag
          /\ min_peak_distance_samples \in 1..2

lag_rest == <<inputs, coarse_candidates, refined, deduped, offset, envelope, raised, others>>

\* _slice_overlap returns its two slices.
SliceOverlapStep ==
    /\ call = "_slice_overlap"
    /\ pc = "called"
    /\ result' = SliceOverlap(reference, candidate, lag)
    /\ pc' = "returned"
    /\ UNCHANGED lag_rest

\* _local_ncc_score returns (None, length) or (score, length).
LocalNccScoreStep ==
    /\ call = "_local_ncc_score"
    /\ pc = "called"
    /\ result' = LocalNccScore(reference, candidate, lag, sample_rate)
    /\ pc' = "returned"
    /\ UNCHANGED lag_rest

\* _top_correlation_lags returns its list.  The two lists are taken as they
\* are: a score is the dot product of the two slices.
TopCorrelationLagsStep ==
    /\ call = "_top_correlation_lags"
    /\ pc = "called"
    /\ result' = TopCorrelationLags([num |-> reference, e2 |-> 1],
                                    [num |-> candidate, e2 |-> 1],
                                    sample_rate, min_lag_samples, max_lag_samples, limit,
                                    min_peak_distance_samples)
    /\ pc' = "returned"
    /\ UNCHANGED lag_rest

LagNext ==
    \/ SliceOverlapStep
    \/ LocalNccScoreStep
    \/ TopCorrelationLagsStep

LagSpec == InitLag /\ [][LagNext]_vars

\* A call of _combine_feature_scores on the envelopes of a reference of
\* CombineLen samples and a candidate of that many or one more; the two
\* envelopes of one signal have its length.
CombineLen == 4

InitCombine ==
    /\ call = "_combine_feature_scores"
    /\ numpy = TRUE
    /\ target_rate = 0
    /\ max_shift_seconds = 0
    /\ limit = 0
    /\ pc = "called"
    /\ coarse_candidates = <<>>
    /\ refined = <<>>
    /\ deduped = <<>>
    /\ result = <<>>
    /\ envelope = <<>>
    /\ offset = <<>>
    /\ raised = NotRaised
    /\ BeatIdle
    /\ normalized = <<>>
    /\ CacheIdle
    /\ SmoothIdle
    /\ PlanIdle
    /\ min_lag_samples = 0
    /\ max_lag_samples = 0
    /\ min_peak_distance_samples = 0
    /\ sample_rate \in {1, 25}
    /\ lag \in -1..1
    /\ reference \in Signals(CombineLen)
    /\ fine_reference_vocal \in Signals(CombineLen)
    /\ \E n \in CombineLen..(CombineLen + 1) :
           candidate \in Signals(n) /\ fine_candidate_vocal \in Signals(n)

\* _combine_feature_scores returns None (<<>>) or its record.
CombineStep ==
    /\ call = "_combine_feature_scores"
    /\ pc = "called"
    /\ result' = CombineFeatureScores(lag, sample_rate, reference, candidate,
                                      fine_reference_vocal, fine_candidate_vocal)
    /\ pc' = "returned"
    /\ UNCHANGED lag_rest

\* The calls of estimate_sync_candidates together with those of
\* _combine_feature_scores.
InitRefine == Init \/ InitCombine

RefineNext ==
    \/ Next
    \/ CombineStep

RefineSpec == InitRefine /\ [][RefineNext]_vars

\* The calls of the alignment engine together with the calls of its helpers.
InitOverlap == Init \/ InitLag

OverlapNext ==
    \/ Next
    \/ LagNext

OverlapSpec == InitOverlap /\ [][OverlapNext]_vars

\* ------------------------------------------- properties of beats.py
BeatReturned == call = "detect_beat_markers" /\ pc = "returned"

\* b - a >= cents / 100
ApartBy(a, b, cents) == 100 * (b.num * a.den - a.num * b.den) >= cents * a.den * b.den

\* C11 as stated: the returned timestamps are >= 0 and strictly increasing, and
\* two consecutive markers are at least min_spacing_seconds apart.
C11_MarkersSpaced ==
    BeatReturned =>
        /\ \A i \in 1..Len(markers) : markers[i].num >= 0
        /\ \A i \in 1..(Len(markers) - 1) :
               ApartBy(markers[i], markers[i + 1], min_spacing_seconds)

\* The pulses of the signal (its non-zero samples, from 1), isolated when any two
\* are more than min_spacing_seconds apart.
PulseIndices == {i \in 1..Len(reference) : reference[i] # 0}

IsolatedPulses ==
    /\ BeatReturned
    /\ sample_rate > 0
    /\ PulseIndices # {}
    /\ Cardinality(PulseIndices) <= max_markers
    /\ \A i, j \in PulseIndices : i < j => 100 * (j - i) > min_spacing_seconds * sample_rate

\* any(abs(marker - expected) < 0.12 for marker in markers), for the pulse at
\* sample i.
MarkerNear(i) ==
    \E k \in 1..Len(markers) : Closer(markers[k], Seconds(i - 1, sample_rate), 12)

\* The bucket of sample i is one the loop of line 53 visits: neither the first
\* nor the last value of the envelope.
Visited(i) == (i - 1) \div BucketSize(sample_rate, target_rate) \in 1..(Len(flux) - 2)

C13_EmptyWithoutError ==
    (call = "detect_beat_markers" /\ pc # "called"
         /\ (sample_rate <= 0 \/ reference = <<>>)) =>
        /\ pc = "returned"
        /\ markers = <<>>
        /\ raised = NotRaised
        /\ envelope = <<>>

C13_Witness ==
    /\ BeatReturned
    /\ sample_rate <= 0
    /\ reference # <<>>
    /\ markers = <<>>

\* ------------------------------- properties of the envelope functions
EnvelopeReturned == call \in EnvelopeCalls /\ pc = "returned"

\* The returned envelope is a list of values (not the record of the spectral
\* branch, whose values max(0, rectified - baseline) + 0.35 * rectified are not
\* computed here).
HasValues == "values" \in DOMAIN envelope[1]

\* C15 as stated: every element of every envelope the two functions return is
\* non-negative.
C15_NonNegative ==
    (EnvelopeReturned /\ HasValues) =>
        \A i \in 1..Len(envelope[1].values) : envelope[1].values[i] >= 0

\* The samples [i * bucket_size, min((i + 1) * bucket_size, len(signal))) of
\* bucket i (from 0), as indices from 1.
BucketFirst(i, bucket_size) == i * bucket_size + 1

BucketLast(i, bucket_size) == Min((i + 1) * bucket_size, Len(reference))

\* values[i + 1] / den is the mean of the absolute values of bucket i.
IsBucketMean(i, bucket_size) ==
    envelope[1].values[i + 1] * (BucketLast(i, bucket_size) - BucketFirst(i, bucket_size) + 1)
        = envelope[1].den * AbsSum(reference, BucketFirst(i, bucket_size),
                                   BucketLast(i, bucket_size))

\* What C16 says of a call with bucket size bucket_size.
EnvelopeAsSpecified(bucket_size) ==
    IF bucket_size = 1
    THEN /\ envelope[1].values = reference
         /\ envelope[1].den = 1
         /\ envelope[1].rate = sample_rate
    ELSE /\ Len(envelope[1].values) = -((-Len(reference)) \div bucket_size)
         /\ \A i \in 0..(Len(envelope[1].values) - 1) : IsBucketMean(i, bucket_size)
         /\ envelope[1].rate = Max(1, sample_rate \div bucket_size)

\* C16: for a non-empty signal and sample_rate > 0, _envelope_downsample returns
\* the signal at sample_rate when bucket_size = max(1, sample_rate //
\* max(1, target_rate)) is 1, and otherwise ceil(len(signal) / bucket_size)
\* bucket means of absolute values, the final partial bucket averaged over its
\* own length, at rate max(1, sample_rate // bucket_size).
C16_BucketMeans ==
    (EnvelopeReturned /\ call = "_envelope_downsample" /\ reference # <<>>) =>
        /\ sample_rate > 0
        /\ EnvelopeAsSpecified(Max(1, sample_rate \div Max(1, target_rate)))

C16_Witness ==
    /\ EnvelopeReturned
    /\ call = "_envelope_downsample"
    /\ sample_rate \div target_rate = 2
    /\ Len(reference) = 3
    /\ reference[3] < 0
    /\ Len(envelope[1].values) = 2
    /\ envelope[1].values[2] > 0

\* A precondition of the spectral path fails: no numeric library, fewer than 8
\* samples, a high cutoff min(1800, sample_rate / 2 - 1) of at most 200 Hz, or
\* no frequency k * sample_rate / n, k in 0 .. n // 2, inside [180 Hz, cutoff].
NoBinInBand ==
    \A k \in 0..(Len(reference) \div 2) :
        \/ k * sample_rate < 180 * Len(reference)
        \/ k * sample_rate > 1800 * Len(reference)
        \/ 2 * k * sample_rate > (sample_rate - 2) * Len(reference)

FallsBack ==
    \/ ~numpy
    \/ Len(reference) < 8
    \/ sample_rate - 2 <= 400
    \/ NoBinInBand

\* C17: whenever a precondition of the spectral path fails,
\* _vocal_emphasis_envelope_downsample ends as _envelope_downsample does for the
\* same arguments: it returns the same envelope and rate, and raises only where
\* _envelope_downsample raises (sample_rate <= 0).
C17_FallbackIsPlain ==
    (call = "_vocal_emphasis_envelope_downsample" /\ pc # "called" /\ FallsBack) =>
        IF EnvelopeDownsample(reference, sample_rate, target_rate).raised
        THEN pc = "raised" /\ raised = "sample_rate must be positive" /\ envelope = <<>>
        ELSE /\ pc = "returned"
             /\ raised = NotRaised
             /\ envelope = <<EnvelopeDownsample(reference, sample_rate, target_rate)>>

C17_Witness ==
    /\ EnvelopeReturned
    /\ call = "_vocal_emphasis_envelope_downsample"
    /\ numpy
    /\ Len(reference) = SpectralLen
    /\ sample_rate > 402
    /\ NoBinInBand
    /\ HasValues
    /\ Len(envelope[1].values) = 2

\* The spectral path is taken when no precondition fails.
SpectralTaken ==
    /\ EnvelopeReturned
    /\ call = "_vocal_emphasis_envelope_downsample"
    /\ ~FallsBack
    /\ ~HasValues

\* ------------------------------------------ properties of _normalize
NormalizeReturned == call = "_normalize" /\ pc = "returned"

Constant(signal) == \A i, j \in 1..Len(signal) : signal[i] = signal[j]

\* C14: _normalize returns a list as long as its input: the input itself when
\* it is empty, all zeros (the centered list, not divided) when it is constant,
\* and otherwise a list of mean zero and Euclidean norm one.  The returned
\* samples are num[i] / sqrt(e2).
C14_Normalized ==
    NormalizeReturned =>
        /\ Len(normalized[1].num) = Len(reference)
        /\ reference = <<>> => normalized[1].num = reference
        /\ Constant(reference) => \A i \in 1..Len(reference) : normalized[1].num[i] = 0
        /\ ~Constant(reference) =>
               /\ SumSeq(normalized[1].num) = 0
               /\ DotUpTo(normalized[1].num, normalized[1].num, Len(reference))
                      = normalized[1].e2

C14_Witness ==
    /\ NormalizeReturned
    /\ Len(reference) = MaxNormalizeLen
    /\ ~Constant(reference)
    /\ SumSeq(reference) # 0
    /\ normalized[1].e2 > 1

\* ------------------------------------------- properties of POST /analyze
\* C19 as stated, its last part: a request that arrives after an analysis of its
\* key was saved is sent that stored analysis and computes nothing.  (Its first
\* part, that two requests of one key can both compute and both save, is the
\* state C19_Witness.)
C19_LateRequestServed ==
    \A r \in Requests :
        request[r].late =>
            /\ request[r].pc \in {"find", "done"}
            /\ request[r].pc = "done" =>
                   /\ request[r].status = 200
                   /\ request[r].analysis_id \in Stored(request[r].analysis_key)

\* What holds instead: such a request computes nothing, and is sent a stored
\* analysis of its key or, having read a file that is being written, status 500.
C19_LateRequestNeverComputes ==
    \A r \in Requests :
        request[r].late =>
            /\ request[r].pc \in {"find", "done", "failed"}
            /\ request[r].pc = "done" =>
                   /\ request[r].status = 200
                   /\ request[r].analysis_id \in Stored(request[r].analysis_key)

\* Two requests of one key have both computed and both saved: two stored
\* analyses of different analysis_id and the same analysis_key.
C19_Witness ==
    \E r1, r2 \in Requests :
        /\ r1 # r2
        /\ request[r1].pc = "done"
        /\ request[r2].pc = "done"
        /\ ~request[r1].late
        /\ ~request[r2].late
        /\ request[r1].analysis_key = request[r2].analysis_key
        /\ request[r1].analysis_id # request[r2].analysis_id
        /\ {request[r1].analysis_id, request[r2].analysis_id}
               \subseteq Stored(request[r1].analysis_key)

\* ------------------------------------- properties of smooth_transforms
SmoothReturned == call = "smooth_transforms" /\ pc = "returned"

\* Two consecutive transforms differ by at most the deltas.
StepWithin(a, b) ==
    /\ Abs(b.position_x - a.position_x) <= max_pan_delta
    /\ Abs(b.position_y - a.position_y) <= max_pan_delta
    /\ Abs(b.scale - a.scale) <= max_zoom_delta

\* C20 as stated: the returned list is as long as the input, and every two
\* consecutive transforms of it differ by at most max_pan_delta in position_x
\* and position_y and by at most max_zoom_delta in scale, for any input list.
C20_StepsLimited ==
    SmoothReturned =>
        /\ Len(smoothed) = Len(transforms)
        /\ \A i \in 1..(Len(smoothed) - 1) : StepWithin(smoothed[i], smoothed[i + 1])

\* The first transform has a scale in [1.0, 2.2] and positions in [-1.0, 1.0].
FirstInRange ==
    /\ transforms # <<>>
    /\ transforms[1].scale \in 100..220
    /\ transforms[1].position_x \in -100..100
    /\ transforms[1].position_y \in -100..100

\* C20, amended: the returned list is as long as the input; when the deltas are
\* not negative and the first transform lies in the range the later ones are
\* clamped to, every two consecutive transforms of it differ by at most the
\* deltas.
C20_StepsLimitedInRange ==
    SmoothReturned =>
        /\ Len(smoothed) = Len(transforms)
        /\ (FirstInRange /\ max_pan_delta >= 0 /\ max_zoom_delta >= 0) =>
               \A i \in 1..(Len(smoothed) - 1) : StepWithin(smoothed[i], smoothed[i + 1])

\* A call in range whose steps were cut down to the deltas.
C20_LimitedInRange ==
    /\ SmoothReturned
    /\ FirstInRange
    /\ max_pan_delta >= 0
    /\ Len(smoothed) = MaxTransforms
    /\ transforms[2].scale > 220
    /\ smoothed[2].scale < smoothed[3].scale
    /\ smoothed[3].position_x = smoothed[2].position_x - max_pan_delta

\* A first transform of scale 3.0 is returned as it is, and the second one is
\* clamped to 2.2: a step of 0.8 under a max_zoom_delta of 0.15.
C20_Witness ==
    /\ SmoothReturned
    /\ max_pan_delta >= 0
    /\ Len(smoothed) = 2
    /\ transforms[1].scale = 300
    /\ transforms[2].scale = 300
    /\ smoothed[1].scale = 300
    /\ smoothed[2].scale = 220

\* ------------------------------------ properties of build_segment_plan
PlanReturned == call = "build_segment_plan" /\ pc = "returned"

\* The segments start at 0, each starts where the one before ends, each has
\* end > start and source_end > source_start >= 0 and is at most 1.75 s long,
\* and the last one ends at `target`.
Covers(plan, target) ==
    /\ plan # <<>>
    /\ plan[1].start = 0
    /\ \A i \in 2..Len(plan) : plan[i].start = plan[i - 1].end
    /\ \A i \in 1..Len(plan) :
           /\ plan[i].end > plan[i].start
           /\ plan[i].source_end > plan[i].source_start
           /\ plan[i].source_start >= 0
           /\ plan[i].end - plan[i].start <= 175
    /\ plan[Len(plan)].end = target

\* C21 as stated: for duration_seconds > 0 the returned segments cover
\* [0, target] in contiguous pieces of at most 1.75 s, the target being
\* duration_seconds, or min(duration_seconds, max_clip_minutes * 60) in
\* "minutes" mode; for duration_seconds <= 0 the list is empty.  No call raises.
C21_PlanCoversTarget ==
    /\ call = "build_segment_plan" => pc # "raised"
    /\ PlanReturned =>
           IF duration_seconds <= 0 THEN segments = <<>>
           ELSE Covers(segments,
                       IF options.clip_mode = "minutes" /\ options.max_clip_minutes # None
                       THEN Min(duration_seconds, options.max_clip_minutes[1] * 6000)
                       ELSE duration_seconds)

\* The same with the target of "minutes" mode as the code takes it: a
\* max_clip_minutes of None or 0 sets no limit, and a negative one gives an
\* empty list.
PlanCoversTargetTaken ==
    /\ call = "build_segment_plan" => pc # "raised"
    /\ PlanReturned =>
           IF duration_seconds <= 0 THEN segments = <<>>
           ELSE IF options.clip_mode = "minutes" /\ options.max_clip_minutes # None
                   /\ options.max_clip_minutes[1] >= 1
           THEN Covers(segments, Min(duration_seconds, options.max_clip_minutes[1] * 6000))
           ELSE IF options.clip_mode = "minutes" /\ options.max_clip_minutes # None
                   /\ options.max_clip_minutes[1] < 0
           THEN segments = <<>>
           ELSE Covers(segments, duration_seconds)

\* C21, amended: every call returns, and what it returns covers the target as
\* the code takes it.
C21_PlanReturnsCover == []PlanCoversTargetTaken /\ <>PlanReturned

\* A call in "minutes" mode that cut a longer medium at one minute, in pieces
\* the last of which is shorter than the cadence.
C21_Witness ==
    /\ PlanReturned
    /\ options.clip_mode = "minutes"
    /\ options.max_clip_minutes = Some(1)
    /\ duration_seconds > 6000
    /\ Len(segments) = 35
    /\ segments[35].end = 6000
    /\ segments[35].end - segments[35].start < 175

\* ---------------------------------- properties of validate_segment_plan
ValidateDone == call = "validate_segment_plan" /\ pc # "called"

\* Some segment has start < 0, end <= start or source_end <= source_start, or
\* starts before the end of the segment before it.
Invalid(plan) ==
    \E i \in 1..Len(plan) :
        \/ plan[i].start < 0
        \/ plan[i].end <= plan[i].start
        \/ plan[i].source_end <= plan[i].source_start
        \/ i > 1 /\ plan[i].start < plan[i - 1].end

\* C22: validate_segment_plan raises ValueError exactly when some segment has
\* start < 0, end <= start, source_end <= source_start, or starts before the
\* end of the segment before it; segments that touch are accepted; the
\* segments are not modified.
C22_RaisesExactlyWhenInvalid ==
    /\ [](ValidateDone => (pc = "raised" <=> Invalid(segments)))
    /\ [][call = "validate_segment_plan" => segments' = segments]_vars

\* A list of three segments that touch was accepted.
C22_Witness ==
    /\ ValidateDone
    /\ pc = "returned"
    /\ Len(segments) = 3
    /\ segments[1].end = segments[2].start
    /\ segments[2].end = segments[3].start

\* ------------------------------------------- properties of the helpers
\* The positions i of the reference that a shift pairs with position i + shift
\* of the candidate (positions from 1), and the dot product over them.
Paired(shift) == {i \in 1..Len(reference) : i + shift \in 1..Len(candidate)}

DotAt(shift) ==
    SumSeq([i \in 1..Len(reference) |->
               IF i \in Paired(shift) THEN reference[i] * candidate[i + shift] ELSE 0])

\* The lags of the scanned range whose overlap has at least
\* max(4, sample_rate // 5) samples.
ScoredLags ==
    {s \in min_lag_samples..max_lag_samples :
        Cardinality(Paired(s)) >= Max(4, sample_rate \div 5)}

TopReturned == call = "_top_correlation_lags" /\ pc = "returned"

LagOf(entry) == entry.lag_seconds.num

ReturnedLags == {LagOf(result[k]) : k \in 1..Len(result)}

\* C23: _top_correlation_lags returns at most limit entries, in non-increasing
\* order of score, no two of them closer than min_peak_distance_samples; the
\* first is a highest-scoring lag of the range; a scored lag that was passed
\* over before the limit was reached lies within min_peak_distance_samples of
\* a returned lag that scores at least as much; the result is empty exactly
\* when no lag of the range has sufficient overlap.
C23_PeaksPicked ==
    TopReturned =>
        /\ Len(result) <= limit
        /\ \A k \in 1..Len(result) :
               /\ LagOf(result[k]) \in ScoredLags
               /\ result[k].score.rad = 1
               /\ result[k].score.num = DotAt(LagOf(result[k]))
        /\ \A k \in 1..(Len(result) - 1) : result[k].score.num >= result[k + 1].score.num
        /\ \A j, k \in 1..Len(result) :
               j # k => Abs(LagOf(result[j]) - LagOf(result[k])) >= min_peak_distance_samples
        /\ result # <<>> => \A s \in ScoredLags : DotAt(s) <= result[1].score.num
        /\ \A s \in ScoredLags \ ReturnedLags :
               (Len(result) < limit \/ DotAt(s) > result[Len(result)].score.num) =>
                   \E k \in 1..Len(result) :
                       /\ Abs(s - LagOf(result[k])) < min_peak_distance_samples
                       /\ result[k].score.num >= DotAt(s)
        /\ result = <<>> <=> ScoredLags = {}

\* Fewer entries than the limit were returned, and a lag that scores more than
\* the last of them was passed over for being too close to a better one.
C23_Witness ==
    /\ TopReturned
    /\ Len(result) = 2
    /\ limit = MaxPeaks
    /\ \E s \in ScoredLags \ ReturnedLags : DotAt(s) > result[2].score.num

SliceReturned == call = "_slice_overlap" /\ pc = "returned"

\* The length of the overlap at `lag`.
PairedLength ==
    IF lag >= 0 THEN Min(Len(reference), Len(candidate) - lag)
    ELSE Min(Len(reference) + lag, Len(candidate))

\* C24: _slice_overlap returns two slices of equal length; for lag >= 0 they
\* pair reference[i] with candidate[i + lag] for i in [0, min(len(reference),
\* len(candidate) - lag)), for lag < 0 reference[i - lag] with candidate[i] for
\* i in [0, min(len(reference) + lag, len(candidate))); both are empty when the
\* shift reaches the length of the shifted list; no index is out of range.
C24_SlicesPaired ==
    SliceReturned =>
        /\ Len(result.ref_slice) = Len(result.cand_slice)
        /\ Len(result.ref_slice) = Max(0, PairedLength)
        /\ lag >= 0 /\ lag >= Len(candidate) => result = NoOverlap
        /\ lag < 0 /\ -lag >= Len(reference) => result = NoOverlap
        /\ \A i \in 1..Len(result.ref_slice) :
               IF lag >= 0
               THEN /\ i \in DOMAIN reference /\ i + lag \in DOMAIN candidate
                    /\ result.ref_slice[i] = reference[i]
                    /\ result.cand_slice[i] = candidate[i + lag]
               ELSE /\ i - lag \in DOMAIN reference /\ i \in DOMAIN candidate
                    /\ result.ref_slice[i] = reference[i - lag]
                    /\ result.cand_slice[i] = candidate[i]

\* A negative lag paired two samples of a reference of three with the first
\* two of the candidate.
C24_Witness ==
    /\ SliceReturned
    /\ lag = -1
    /\ Len(reference) = 3
    /\ Len(candidate) = 3
    /\ result.ref_slice = SubSeq(reference, 2, 3)
    /\ result.cand_slice = SubSeq(candidate, 1, 2)
    /\ reference[1] # reference[2]

NccReturned == call = "_local_ncc_score" /\ pc = "returned"

\* The rate of the fine envelopes (target 90 Hz) of a call of
\* estimate_sync_candidates.
FineRate == sample_rate \div BucketSize(sample_rate, 90)

\* An overlap of n samples is shorter than max(4, sample_rate / 5), the
\* quotient being the real one.
ShorterThanQuotient(n, rate) == n < 4 \/ 5 * n < rate

\* An overlap of n samples is shorter than max(4, sample_rate // 5).
ShorterThanFloor(n, rate) == n < Max(4, rate \div 5)

\* C25 as stated: a lag whose overlap is shorter than max(4, sample_rate / 5)
\* is in no result of _top_correlation_lags, _local_ncc_score returns None for
\* it, and no candidate that estimate_sync_candidates returns has fewer
\* overlap_samples than that, at the fine rate; no call on signals that are
\* not empty, at a positive sample rate, raises.
C25_ShortOverlapUnscored ==
    /\ TopReturned =>
           \A k \in 1..Len(result) :
               /\ result[k].overlap_samples = Cardinality(Paired(LagOf(result[k])))
               /\ ~ShorterThanQuotient(result[k].overlap_samples, sample_rate)
    /\ NccReturned =>
           /\ result.length = Cardinality(Paired(lag))
           /\ ShorterThanQuotient(result.length, sample_rate) => result.none
    /\ Returned =>
           \A k \in 1..Len(result) :
               ~ShorterThanQuotient(result[k].overlap_samples, FineRate)
    /\ call \in LagCalls => raised = NotRaised
    /\ call \in SyncCalls /\ sample_rate > 0 /\ reference # <<>> /\ candidate # <<>> =>
           raised = NotRaised

\* C25, amended: the same with the least overlap max(4, sample_rate // 5), the
\* quotient rounded down; _local_ncc_score returns None for exactly the
\* shorter overlaps.
C25_ShortOverlapUnscoredFloor ==
    /\ TopReturned =>
           \A k \in 1..Len(result) :
               /\ result[k].overlap_samples = Cardinality(Paired(LagOf(result[k])))
               /\ ~ShorterThanFloor(result[k].overlap_samples, sample_rate)
    /\ NccReturned =>
           /\ result.length = Cardinality(Paired(lag))
           /\ ShorterThanFloor(result.length, sample_rate) <=> result.none
    /\ Returned =>
           \A k \in 1..Len(result) :
               ~ShorterThanFloor(result[k].overlap_samples, FineRate)
    /\ call \in LagCalls => raised = NotRaised
    /\ call \in SyncCalls /\ sample_rate > 0 /\ reference # <<>> /\ candidate # <<>> =>
           raised = NotRaised

\* At 25 Hz a lag of the range overlaps in 4 samples, one short of the least
\* overlap, and another lag was returned.
C25_Witness ==
    /\ TopReturned
    /\ sample_rate = 25
    /\ result # <<>>
    /\ \E s \in min_lag_samples..max_lag_samples : Cardinality(Paired(s)) = 4

\* ------------------------------------- properties of the coarse stage
\* The coarse stage of a call of estimate_sync_candidates has run.
CoarseDone == call \in SyncCalls /\ pc \in {"coarse", "fine", "ranked", "returned", "done"}

\* The list _merge_candidate_lags returned at line 437.
CoarseMerged ==
    MergeCandidateLags(
        CoarsePeaks(EnvelopeDownsample(reference, sample_rate, 24),
                    EnvelopeDownsample(candidate, sample_rate, 24),
                    EnvelopeDownsample(reference, sample_rate, 24).rate,
                    EnvelopeDownsample(reference, sample_rate, 24).rate,
                    max_shift_seconds, limit)
            \o CoarsePeaks(VocalEmphasisEnvelopeDownsample(reference, sample_rate, 24, numpy),
                           VocalEmphasisEnvelopeDownsample(candidate, sample_rate, 24, numpy),
                           VocalEmphasisEnvelopeDownsample(reference, sample_rate, 24, numpy).rate,
                           EnvelopeDownsample(reference, sample_rate, 24).rate,
                           max_shift_seconds, limit),
        <<end_anchor_seconds>>, 35)

\* The end anchor was injected during merging.
AnchorInjected == \E k \in 1..Len(CoarseMerged) : CoarseMerged[k].injected

\* The list handed to the fine stage holds the injected end anchor.
AnchorHandedOn ==
    \E k \in 1..Len(coarse_candidates) :
        /\ coarse_candidates[k].injected
        /\ SecondsEq(coarse_candidates[k].lag_seconds, end_anchor_seconds)

\* C26: whenever the end anchor was injected during merging, the list of
\* coarse candidates handed to the fine stage holds the injected candidate.
C26_InjectedAnchorKept == CoarseDone /\ AnchorInjected => AnchorHandedOn

\* The end anchor was injected, and the list handed to the fine stage, which
\* holds a candidate less than 0.75 s from it, does not hold it.
C26_Witness ==
    /\ CoarseDone
    /\ AnchorInjected
    /\ ~AnchorHandedOn
    /\ \E k \in 1..Len(coarse_candidates) :
           Closer(coarse_candidates[k].lag_seconds, end_anchor_seconds, 75)

\* -------------------------------------- properties of the fine stage
\* `score` is 0.45 * amp + 0.55 * vocal: over one radical it is their sum in
\* hundredths, and over two radicals, neither score zero, the pair itself.
IsWeighted(score, amp, vocal, amp_weight, vocal_weight) ==
    IF amp.rad = vocal.rad \/ amp.num = 0 \/ vocal.num = 0
    THEN \/ /\ score.rad = (IF amp.num = 0 /\ amp.rad # vocal.rad THEN vocal.rad ELSE amp.rad)
            /\ 100 * score.num = amp_weight * amp.num + vocal_weight * vocal.num
         \/ /\ score.rad = 10000 * (IF amp.num = 0 /\ amp.rad # vocal.rad THEN vocal.rad
                                    ELSE amp.rad)
            /\ score.num = amp_weight * amp.num + vocal_weight * vocal.num
    ELSE score = [amp |-> amp, vocal |-> vocal]

\* `item` holds the localized NCC of both features at its lag, each of them a
\* valid score, and their weighted sum.
BothScored(item, amp, vocal) ==
    /\ ~amp.none
    /\ ~vocal.none
    /\ item.amp_score = amp.score
    /\ item.vocal_score = vocal.score
    /\ IsWeighted(item.score, amp.score, vocal.score, 45, 55)

\* The same for a candidate of estimate_sync_candidates, on the fine envelopes
\* as _envelope_downsample and _vocal_emphasis_envelope_downsample return them.
BothScoredFine(item) ==
    BothScored(item,
               LocalNccScore(EnvelopeDownsample(reference, sample_rate, 90).values,
                             EnvelopeDownsample(candidate, sample_rate, 90).values,
                             LagOf(item), FineRate),
               LocalNccScore(VocalEmphasisEnvelopeDownsample(reference, sample_rate, 90, numpy).values,
                             VocalEmphasisEnvelopeDownsample(candidate, sample_rate, 90, numpy).values,
                             LagOf(item), FineRate))

CombineReturned == call = "_combine_feature_scores" /\ pc = "returned"

\* C27: every refined candidate's score is 0.45 * amp_score + 0.55 * vocal_score,
\* each the localized NCC at its lag on the fine envelopes as they are; a lag
\* without a valid score is discarded, so every refined and every returned
\* candidate has a valid score in both features.  _combine_feature_scores on
\* envelopes of equal lengths returns None exactly when the overlap is too
\* short, and else such a record.
C27_RefinedScoresCombined ==
    /\ call \in SyncCalls /\ pc \in {"fine", "ranked", "returned", "done"} =>
           /\ \A k \in 1..Len(refined) : BothScoredFine(refined[k])
           /\ \A k \in 1..Len(result) : BothScoredFine(result[k])
    /\ CombineReturned =>
           /\ result = <<>> <=> ShorterThanFloor(Cardinality(Paired(lag)), sample_rate)
           /\ result # <<>> =>
                  /\ BothScored(result[1],
                                LocalNccScore(reference, candidate, lag, sample_rate),
                                LocalNccScore(fine_reference_vocal, fine_candidate_vocal, lag,
                                              sample_rate))
                  /\ result[1].overlap_samples = Cardinality(Paired(lag))
                  /\ LagOf(result[1]) = lag

\* A record whose two feature scores differ, over one radical.
C27_Witness ==
    /\ CombineReturned
    /\ result # <<>>
    /\ result[1].amp_score.rad = result[1].vocal_score.rad
    /\ result[1].amp_score.num > 0
    /\ result[1].vocal_score.num < 0
    /\ result[1].score.num # 0

\* ------------------------------------------- properties of the peak loop
\* flux[i] (from 0) is at least both neighbours and exceeds
\* max(0.12 * max(flux), 1.35 * local_floor[i]).
ExceedsThreshold(i) ==
    /\ flux[i + 1] >= flux[i]
    /\ flux[i + 1] >= flux[i + 2]
    /\ 100 * flux[i + 1] > 12 * MaxUpTo(flux, Len(flux))
    /\ 100 * floor_scale * flux[i + 1] > 135 * local_floor[i + 1]

SilentFlux == \A i \in 1..Len(flux) : flux[i] = 0

\* C28 as stated: every returned marker is at an interior index i of the
\* envelope (1 <= i <= n - 2) whose flux is at least both neighbours and exceeds
\* the dynamic threshold; for a flux that is zero throughout no marker is
\* returned.
C28_MarkersExceedThreshold ==
    BeatReturned =>
        /\ \A k \in 1..Len(markers) :
               \E i \in 1..(Len(flux) - 2) :
                   /\ markers[k] = Seconds(i, envelope_rate)
                   /\ ExceedsThreshold(i)
        /\ (flux # <<>> /\ SilentFlux) => markers = <<>>

\* A silent signal for which markers are returned.
C28_Witness ==
    /\ BeatReturned
    /\ flux # <<>>
    /\ SilentFlux
    /\ \A i \in 1..Len(reference) : reference[i] = 0
    /\ Len(markers) >= 2

\* --------------------------------------- properties of the returned list
\* No refined candidate scores higher than `item`.
BestRefined(item) == \A k \in 1..Len(refined) : ~ScoreLess(item.score, refined[k].score)

\* C29 as stated: the first returned candidate has the highest score of all
\* refined candidates, for every limit >= 1, and estimate_sync_offset returns
\* the lag of a best-scoring refined candidate, also when an end-anchor choice
\* is spliced in.
C29_FirstIsBestRefined ==
    /\ (Returned /\ result # <<>>) => BestRefined(result[1])
    /\ (call = "estimate_sync_offset" /\ pc = "done" /\ refined # <<>>) =>
           \E k \in 1..Len(refined) :
               /\ BestRefined(refined[k])
               /\ offset = <<refined[k].lag_seconds>>

\* C29 for lists that may hold two candidates: with limit >= 2 the first
\* returned candidate has the highest score of all refined candidates.
C29_FirstIsBestOfTwo ==
    (Returned /\ result # <<>> /\ limit >= 2) => BestRefined(result[1])

\* The one candidate of a call with limit = 1 was replaced by an end-anchor
\* choice that scores lower than another refined candidate.
C29_Witness ==
    /\ Spliced
    /\ limit = 1
    /\ end_anchor_seconds.num > 0
    /\ ~BestRefined(result[1])

\* lag_seconds is a whole number of fine samples over the fine rate, and at
\* most max_shift_seconds in absolute value.
OnFineGrid(item) ==
    /\ item.lag_seconds.den = FineRate
    /\ item.lag_seconds.num \in Int
    /\ Abs(item.lag_seconds.num) <= max_shift_seconds * FineRate

\* C30: every returned candidate has |lag_seconds| <= max_shift_seconds and a
\* lag_seconds that is a whole number of fine-rate samples over the fine rate;
\* so have the refined candidates, those descending from the injected end
\* anchor included, and a spliced end-anchor choice, also when the end anchor
\* lies beyond max_shift_seconds.
C30_LagsWithinShift ==
    (call \in SyncCalls /\ pc \in {"fine", "ranked", "returned", "done"}) =>
        /\ \A k \in 1..Len(result) : OnFineGrid(result[k])
        /\ \A k \in 1..Len(refined) : OnFineGrid(refined[k])

\* An end anchor beyond max_shift_seconds whose descendant was spliced into the
\* returned list.
C30_Witness ==
    /\ Spliced
    /\ end_anchor_seconds.num > max_shift_seconds * end_anchor_seconds.den
    /\ \E k \in 1..Len(result) :
           /\ result[k].injected
           /\ result[k] \notin {FinalRanking(refined, limit)[j] :
                                    j \in 1..Len(FinalRanking(refined, limit))}

====
